---- MODULE Spec2Model ----
(***************************************************************************)
(* Model of the rmsd-yaml event parser (YamlParser::parse_to_events and    *)
(* its handlers) and of the composer (YamlValue::compose).                 *)
(*                                                                         *)
(* A string is a sequence of one-character strings.  The parser is a state *)
(* machine: the scanner, the state stack, the event buffer and the call    *)
(* stack of the recursive-descent handlers.  One action per handler; each  *)
(* step of an action runs the handler from its current position to its     *)
(* next call, loop iteration or return.                                    *)
(***************************************************************************)
EXTENDS Integers, Sequences, FiniteSets, TLC

VARIABLES input, parser, queue, outcomes, events, composed, operand, output

vars == <<input, parser, queue, outcomes, events, composed, operand, output>>

(***************************************************************************)
(* Bounds of the model.                                                    *)
(***************************************************************************)
MaxLines == 3
MaxDepth == 24

(***************************************************************************)
(* String helpers (str methods of the Rust standard library).              *)
(***************************************************************************)
Max(a, b) == IF a >= b THEN a ELSE b

IsBreak(c) == c = "\n" \/ c = "\r"

\* the grave accent character
Backtick == "GRAVE"

\* line.chars().take_while(|c| *c == ' ').count()
LeadingSpaces(s) ==
    IF \A i \in 1..Len(s) : s[i] = " " THEN Len(s)
    ELSE (CHOOSE i \in 1..Len(s) :
             s[i] # " " /\ \A j \in 1..(i - 1) : s[j] = " ") - 1

\* str::trim_start_matches(' ')
TrimStart(s) == SubSeq(s, LeadingSpaces(s) + 1, Len(s))

\* str::trim_end_matches over a set of characters
TrimEndSet(s, cs) ==
    IF \A i \in 1..Len(s) : s[i] \in cs THEN <<>>
    ELSE SubSeq(s, 1, CHOOSE i \in 1..Len(s) :
                         s[i] \notin cs /\ \A j \in (i + 1)..Len(s) : s[j] \in cs)

\* str::trim_start_matches over a set of characters
TrimStartSet(s, cs) ==
    IF \A i \in 1..Len(s) : s[i] \in cs THEN <<>>
    ELSE SubSeq(s, CHOOSE i \in 1..Len(s) :
                      s[i] \notin cs /\ \A j \in 1..(i - 1) : s[j] \in cs, Len(s))

\* str::trim_matches(|c| matches!(c, ' ' | '\t'))
TrimBlank(s) == TrimEndSet(TrimStartSet(s, {" ", "\t"}), {" ", "\t"})

StartsWith(s, pre) == Len(s) >= Len(pre) /\ SubSeq(s, 1, Len(pre)) = pre

EndsWith(s, suf) ==
    Len(s) >= Len(suf) /\ SubSeq(s, Len(s) - Len(suf) + 1, Len(s)) = suf

\* str::find: byte offset of the first match, -1 for None
Find(s, sub) ==
    LET hits == {i \in 0..(Len(s) - Len(sub)) : SubSeq(s, i + 1, i + Len(sub)) = sub}
    IN IF hits = {} THEN -1 ELSE CHOOSE i \in hits : \A j \in hits : i <= j

\* str::find over a set of characters
FindAny(s, cs) ==
    LET hits == {i \in 0..(Len(s) - 1) : s[i + 1] \in cs}
    IN IF hits = {} THEN -1 ELSE CHOOSE i \in hits : \A j \in hits : i <= j

Contains(s, sub) == Find(s, sub) # -1

\* the part of s before its first character in cs (split(cs).next())
Before(s, cs) ==
    LET k == FindAny(s, cs) IN IF k = -1 THEN s ELSE SubSeq(s, 1, k)

\* slice s[from..to] with byte offsets
Slice(s, from, to) == SubSeq(s, from + 1, to)

(***************************************************************************)
(* YamlPosition                                                            *)
(***************************************************************************)
Pos(l, c) == [line |-> l, column |-> c]

EOF == Pos(0, 0)

PosNextColumn(p) == [p EXCEPT !.column = p.column + 1]

PosNextLine(p) == Pos(p.line + 1, 1)

PosLe(p, q) == p.line < q.line \/ (p.line = q.line /\ p.column <= q.column)

(***************************************************************************)
(* YamlScanner: rem is iter.as_str()                                       *)
(***************************************************************************)
ScannerNew(s) ==
    [rem |-> s,
     next_pos |-> IF s = <<>> THEN EOF ELSE Pos(1, 1),
     done_pos |-> IF s = <<>> THEN EOF ELSE Pos(1, 0)]

HasLine(sc) == sc.rem # <<>>

PeekLine(sc) == Before(sc.rem, {"\n", "\r"})

PeekTillLinebreak(sc) == Before(sc.rem, {"\n", "\r"})

PeekTillLinebreakOrSpace(sc) == Before(sc.rem, {"\n", "\r", " "})

NextChar(sc) ==
    IF sc.rem = <<>> THEN sc
    ELSE LET c == Head(sc.rem)
             rest == Tail(sc.rem)
         IN IF c = "\n" \/ (c = "\r" /\ ~(rest # <<>> /\ Head(rest) = "\n"))
            THEN [rem |-> rest, done_pos |-> sc.next_pos,
                  next_pos |-> PosNextLine(sc.next_pos)]
            ELSE IF rest # <<>>
            THEN [rem |-> rest, done_pos |-> sc.next_pos,
                  next_pos |-> PosNextColumn(sc.next_pos)]
            ELSE [rem |-> rest, done_pos |-> sc.next_pos,
                  next_pos |-> sc.next_pos]

RECURSIVE Advance(_, _)
Advance(sc, count) ==
    IF count <= 0 \/ sc.rem = <<>> THEN sc ELSE Advance(NextChar(sc), count - 1)

AdvanceOffset(sc, offset) ==
    IF Len(sc.rem) > offset THEN Advance(sc, offset) ELSE sc

AdvanceTillLinebreak(sc) == NextChar(Advance(sc, Len(PeekTillLinebreak(sc))))

AdvanceTillLinebreakOrSpace(sc) ==
    NextChar(Advance(sc, Len(PeekTillLinebreakOrSpace(sc))))

AdvanceTillNonSpace(sc) == Advance(sc, LeadingSpaces(sc.rem))

NextLine(sc) == AdvanceTillLinebreak(sc)

\* the lines of s as split(['\n', '\r']) yields them
RECURSIVE SplitBreaks(_)
SplitBreaks(s) ==
    LET k == FindAny(s, {"\n", "\r"})
    IN IF k = -1 THEN <<s>>
       ELSE <<SubSeq(s, 1, k)>> \o SplitBreaks(SubSeq(s, k + 2, Len(s)))

RECURSIVE BlockIndentOf(_, _)
BlockIndentOf(lines, max_indent) ==
    IF lines = <<>> THEN max_indent
    ELSE LET line == Head(lines)
         IN IF \A i \in 1..Len(line) : line[i] = " "
            THEN BlockIndentOf(Tail(lines), Max(max_indent, Len(line)))
            ELSE LeadingSpaces(line)

CountBlockIndentation(sc) == BlockIndentOf(SplitBreaks(sc.rem), 0)

\* returns the scanner and whether the call returned Ok
RECURSIVE ExpectCommentOrLineBreak(_)
ExpectCommentOrLineBreak(sc) ==
    IF sc.rem = <<>> THEN [sc |-> sc, ok |-> TRUE]
    ELSE LET c == Head(sc.rem)
             sc1 == NextChar(sc)
         IN IF IsBreak(c) THEN [sc |-> sc1, ok |-> TRUE]
            ELSE IF c = "#" THEN ExpectCommentOrLineBreak(AdvanceTillLinebreak(sc1))
            ELSE IF c = " " THEN ExpectCommentOrLineBreak(sc1)
            ELSE [sc |-> sc1, ok |-> FALSE]

(***************************************************************************)
(* YamlState                                                               *)
(***************************************************************************)
IsContainer(st) ==
    st \in {"InBlockMapKey", "InBlockMapValue", "InBlockSequnce",
            "InFlowMapKey", "InFlowMapValue", "InFlowSequnce"}

IsFlow(st) == st \in {"InFlowMapKey", "InFlowMapValue", "InFlowSequnce"}

IsBlockMapKey(st) == st = "InBlockMapKey"

IsBlockMapValue(st) == st = "InBlockMapValue"

IsBlockSeq(st) == st = "InBlockSequnce"

(***************************************************************************)
(* YamlEvent                                                               *)
(***************************************************************************)
NoTag == "None"

Ev(kind, explicit, tag, text, start, end) ==
    [kind |-> kind, explicit |-> explicit, tag |-> tag, text |-> text,
     start |-> start, end |-> end]

StreamStart == Ev("StreamStart", FALSE, NoTag, <<>>, EOF, EOF)

StreamEnd == Ev("StreamEnd", FALSE, NoTag, <<>>, EOF, EOF)

DocumentStart(explicit, pos) == Ev("DocumentStart", explicit, NoTag, <<>>, pos, pos)

DocumentEnd(explicit, pos) == Ev("DocumentEnd", explicit, NoTag, <<>>, pos, pos)

SequenceStart(tag, pos) == Ev("SequenceStart", FALSE, tag, <<>>, pos, pos)

SequenceEnd(pos) == Ev("SequenceEnd", FALSE, NoTag, <<>>, pos, pos)

MapStart(tag, pos) == Ev("MapStart", FALSE, tag, <<>>, pos, pos)

MapEnd(pos) == Ev("MapEnd", FALSE, NoTag, <<>>, pos, pos)

Scalar(tag, text, start, end) == Ev("Scalar", FALSE, tag, text, start, end)

(***************************************************************************)
(* YamlParser: the struct fields, the call stack of its handlers and the   *)
(* outcome of parse_to_events.  result is "running" while parsing, "Ok"    *)
(* when the event list was returned, an ErrorKind when Err was returned,   *)
(* "Panic" for todo!(), "Hang" for a loop iteration that changes nothing   *)
(* and "StackOverflow" for recursion beyond MaxDepth frames.               *)
(***************************************************************************)
Frame(fn, first, rest, tag) ==
    [fn |-> fn, pc |-> "start", first |-> first, rest |-> rest, tag |-> tag,
     is_first |-> TRUE, vfirst |-> 0, vrest |-> 0, desired |-> 0,
     pre_pos |-> EOF, start_pos |-> EOF, ret |-> <<>>, lines |-> <<>>,
     chomp |-> "Clip"]

ParserNew(s) ==
    [scanner |-> ScannerNew(s), states |-> <<>>, events |-> <<>>,
     stack |-> <<Frame("parse_to_events", 0, 0, NoTag)>>,
     result |-> "running"]

Top(p) == p.stack[Len(p.stack)]

Running(p, fn) == p.result = "running" /\ p.stack # <<>> /\ Top(p).fn = fn

SetTop(p, f) == [p EXCEPT !.stack[Len(p.stack)] = f]

CurState(p) ==
    IF p.states = <<>> THEN "EndOfFile" ELSE p.states[Len(p.states)]

PushEvent(p, e) == [p EXCEPT !.events = Append(@, e)]

PushState(p, st) == [p EXCEPT !.states = Append(@, st)]

PopState(p) ==
    IF p.states = <<>> THEN p
    ELSE [p EXCEPT !.states = SubSeq(@, 1, Len(@) - 1)]

SetScanner(p, sc) == [p EXCEPT !.scanner = sc]

\* Err(..) propagated by `?` up to the caller of parse_to_events
Fail(p, kind) == [p EXCEPT !.result = kind, !.stack = <<>>]

\* return from the handler on top; a caller that was waiting at its own
\* return ("ret") returns as well
RECURSIVE PopFrames(_)
PopFrames(stack) ==
    IF stack = <<>> THEN stack
    ELSE IF stack[Len(stack)].pc = "ret"
    THEN PopFrames(SubSeq(stack, 1, Len(stack) - 1))
    ELSE stack

Return(p) ==
    [p EXCEPT !.stack = PopFrames(SubSeq(p.stack, 1, Len(p.stack) - 1))]

Call(p, frame) ==
    IF Len(p.stack) >= MaxDepth
    THEN [p EXCEPT !.result = "StackOverflow", !.stack = <<>>]
    ELSE [p EXCEPT !.stack = Append(@, frame)]

\* call as the last statement of the handler on top
TailCall(p, frame) == Call(SetTop(p, [Top(p) EXCEPT !.pc = "ret"]), frame)

(***************************************************************************)
(* handle_tag                                                              *)
(***************************************************************************)
KnownTag(tok) ==
    IF tok = <<"!", "!", "s", "t", "r">> THEN "YamlOrg2002Str"
    ELSE IF tok = <<"!", "!", "i", "n", "t">> THEN "YamlOrg2002Int"
    ELSE IF tok = <<"!", "!", "b", "o", "o", "l">> THEN "YamlOrg2002Bool"
    ELSE IF tok = <<"!", "!", "f", "l", "o", "a", "t">> THEN "YamlOrg2002Float"
    ELSE IF tok = <<"!", "!", "s", "e", "q">> THEN "YamlOrg2002Sequence"
    ELSE IF tok = <<"!", "!", "m", "a", "p">> THEN "YamlOrg2002Map"
    ELSE NoTag

\* returns the tag and the scanner after the call
HandleTag(sc) ==
    LET ret == KnownTag(PeekTillLinebreakOrSpace(sc))
    IN [tag |-> ret,
        sc |-> IF ret # NoTag THEN AdvanceTillLinebreakOrSpace(sc) ELSE sc]

(***************************************************************************)
(* parse_to_events                                                         *)
(***************************************************************************)
ParseToEventsStep(p) ==
    LET f == Top(p)
    IN IF f.pc = "after_stream" /\ p.scanner.done_pos = f.pre_pos
       THEN Fail(p, "Bug")
       ELSE IF p.scanner.rem = <<>>
       THEN [p EXCEPT !.result = "Ok", !.stack = <<>>]
       ELSE Call(SetTop(p, [f EXCEPT !.pc = "after_stream",
                                     !.pre_pos = p.scanner.done_pos]),
                 Frame("handle_stream", 0, 0, NoTag))

(***************************************************************************)
(* handle_stream                                                           *)
(***************************************************************************)
HasEvent(p, kind) == \E i \in 1..Len(p.events) : p.events[i].kind = kind

HandleStreamEnd(p) ==
    LET p1 == IF HasEvent(p, "DocumentStart") THEN p
              ELSE PushEvent(p, DocumentStart(FALSE, EOF))
        p2 == IF HasEvent(p1, "DocumentEnd") THEN p1
              ELSE PushEvent(p1, DocumentEnd(FALSE, p1.scanner.done_pos))
    IN Return(PushEvent(p2, StreamEnd))

HandleStreamStep(p) ==
    LET f == Top(p)
        sc == p.scanner
        line == PeekLine(sc)
        trimmed == TrimStart(line)
        offset == Find(line, <<"-", "-", "-", " ">>)
    IN IF f.pc = "start"
       THEN SetTop(PushEvent(p, StreamStart), [f EXCEPT !.pc = "loop"])
       ELSE IF ~HasLine(sc) THEN HandleStreamEnd(p)
       ELSE IF trimmed = <<>>
       THEN SetScanner(p, AdvanceTillLinebreak(sc))
       ELSE IF trimmed = <<"-", "-", "-">>
       THEN Call(SetScanner(PushEvent(p, DocumentStart(TRUE, sc.next_pos)),
                            AdvanceTillLinebreak(sc)),
                 Frame("handle_node", LeadingSpaces(line), LeadingSpaces(line), NoTag))
       ELSE IF offset # -1
       THEN Call(SetScanner(PushEvent(p, DocumentStart(TRUE, sc.next_pos)),
                            AdvanceOffset(sc, offset + 4)),
                 Frame("handle_node", 0, 0, NoTag))
       ELSE IF trimmed = <<".", ".", ".">>
       THEN SetScanner(PushEvent(p, DocumentEnd(TRUE, sc.next_pos)),
                       AdvanceTillLinebreakOrSpace(sc))
       ELSE Call(PushEvent(p, DocumentStart(FALSE, sc.next_pos)),
                 Frame("handle_node", 0, 0, NoTag))

(***************************************************************************)
(* handle_node                                                             *)
(***************************************************************************)
\* the loop that skips less indented empty lines and comment lines
RECURSIVE SkipEmptyAndComment(_, _)
SkipEmptyAndComment(sc, first_indent_count) ==
    IF ~HasLine(sc) THEN sc
    ELSE LET line == PeekLine(sc)
             trimmed == TrimStart(line)
         IN IF (trimmed = <<>> /\ LeadingSpaces(line) <= first_indent_count)
               \/ StartsWith(trimmed, <<"#", " ">>)
            THEN SkipEmptyAndComment(AdvanceTillLinebreak(sc), first_indent_count)
            ELSE sc

HandleNodeStep(p) ==
    LET f == Top(p)
        sc == SkipEmptyAndComment(p.scanner, f.first)
        p1 == SetScanner(p, sc)
        line == PeekLine(sc)
        indent_count == LeadingSpaces(line)
        trimmed == TrimStart(line)
        tg == HandleTag(Advance(sc, indent_count))
    IN IF ~HasLine(sc) THEN Return(p1)
       ELSE IF indent_count < f.first
       THEN IF IsContainer(CurState(p1)) THEN Return(p1)
            ELSE Fail(p1, "LessIndentedWithoutParent")
       ELSE IF StartsWith(trimmed, <<"-", " ">>) \/ trimmed = <<"-">>
       THEN TailCall(p1, Frame("handle_block_seq",
                               f.rest + indent_count - f.first, 0, f.tag))
       ELSE IF StartsWith(trimmed, <<"'">>) \/ StartsWith(trimmed, <<"\"">>)
       THEN TailCall(p1, Frame("handle_scalar", 0, 0, f.tag))
       ELSE IF Contains(trimmed, <<":", " ">>)
       THEN TailCall(p1, Frame("handle_block_map", Max(f.first, indent_count),
                               Max(f.rest, indent_count), f.tag))
       ELSE IF EndsWith(trimmed, <<":">>)
       THEN TailCall(p1, Frame("handle_block_map", f.first, f.rest, f.tag))
       ELSE IF StartsWith(trimmed, <<"[">>) \/ StartsWith(trimmed, <<"{">>)
       THEN [p1 EXCEPT !.result = "Panic", !.stack = <<>>]
       ELSE IF StartsWith(trimmed, <<"!">>)
       THEN TailCall(SetScanner(p1, tg.sc),
                     Frame("handle_node", f.first, f.rest, tg.tag))
       ELSE IF StartsWith(trimmed, <<"\t">>)
       THEN Fail(p1, "InvalidStartOfToken")
       ELSE TailCall(p1, Frame("handle_scalar", f.first, f.rest, f.tag))

(***************************************************************************)
(* handle_block_seq: the frame keeps indent_count in first                 *)
(***************************************************************************)
\* handle_block_seq closing the sequence with the event of a mapping
HandleBlockSeqEndAsMapEnd(p) ==
    Return(PopState(PushEvent(p, MapEnd(p.scanner.done_pos))))

HandleBlockSeqEnd(p) ==
    Return(PopState(PushEvent(p, SequenceEnd(p.scanner.done_pos))))

HandleBlockSeqStep(p) ==
    LET f == Top(p)
        sc == p.scanner
        line == PeekLine(sc)
        cur_indent == LeadingSpaces(line)
        trimmed == TrimStart(line)
        sc1 == NextLine(sc)
        next_indent == LeadingSpaces(PeekLine(sc1))
    IN IF f.pc = "start"
       THEN SetTop(PushState(PushEvent(p, SequenceStart(f.tag, sc.next_pos)),
                             "InBlockSequnce"),
                   [f EXCEPT !.pc = "loop"])
       ELSE IF ~HasLine(sc) THEN HandleBlockSeqEnd(p)
       ELSE IF line = <<>>
       THEN [p EXCEPT !.result = "Hang", !.stack = <<>>]
       ELSE IF cur_indent < f.first THEN HandleBlockSeqEnd(p)
       ELSE IF trimmed = <<"-">>
       THEN IF HasLine(sc1)
            THEN Call(SetScanner(p, sc1),
                      Frame("handle_node", next_indent, next_indent, NoTag))
            ELSE PushEvent(SetScanner(p, sc1),
                           Scalar(NoTag, <<>>, sc1.done_pos, sc1.done_pos))
       ELSE IF StartsWith(trimmed, <<"-", " ">>)
       THEN Call(SetScanner(p, Advance(sc, cur_indent + 2)),
                 Frame("handle_node", 0, cur_indent + 2, NoTag))
       ELSE IF trimmed = <<>> THEN SetScanner(p, sc1)
       ELSE Fail(p, "InvalidSequnceStartIndicator")

(***************************************************************************)
(* handle_block_map                                                        *)
(***************************************************************************)
HandleBlockMapEnd(p) ==
    Return(PopState(PushEvent(p, MapEnd(p.scanner.done_pos))))

\* the statements after the key was parsed, up to the call that parses the
\* value
HandleBlockMapAfterKey(p) ==
    LET f == Top(p)
        p1 == PushState(PopState(p), "InBlockMapValue")
        sc == p.scanner
        line == PeekLine(sc)
        trimmed_line == TrimEndSet(line, {" "})
        sc1 == NextLine(sc)
        next_line_indent_count == LeadingSpaces(PeekLine(sc1))
        sc2 == AdvanceOffset(sc, 2)
        value(q, vf, vr) ==
            Call(SetTop(q, [f EXCEPT !.pc = "after_value",
                                     !.vfirst = vf, !.vrest = vr]),
                 Frame("handle_node", vf, vr, NoTag))
    IN IF ~HasLine(sc) THEN HandleBlockMapEnd(p)
       ELSE IF EndsWith(trimmed_line, <<":">>)
       THEN IF HasLine(sc1)
            THEN IF next_line_indent_count < f.desired
                 THEN Fail(p1, "Bug")
                 ELSE value(SetScanner(p1, sc1), next_line_indent_count,
                            next_line_indent_count)
            ELSE HandleBlockMapEnd(
                     PushEvent(SetScanner(p1, sc1),
                               Scalar(NoTag, <<>>, sc1.done_pos, sc1.done_pos)))
       ELSE IF Contains(line, <<":", " ">>)
       THEN value(SetScanner(p1, sc2), 0, sc2.done_pos.column)
       ELSE IF trimmed_line = <<>>
       THEN value(SetScanner(p1, sc1), f.vfirst, f.vrest)
       ELSE Fail(p1, "Bug")

HandleBlockMapStep(p) ==
    LET f == Top(p)
        sc == p.scanner
        line == PeekLine(sc)
        cur_indent == LeadingSpaces(line)
        desired_indent_count == IF f.is_first THEN f.first ELSE f.rest
        f1 == [f EXCEPT !.is_first = FALSE, !.pre_pos = sc.done_pos,
                        !.desired = desired_indent_count]
        p1 == PopState(p)
    IN IF f.pc = "start"
       THEN SetTop(PushState(PushEvent(p, MapStart(f.tag, sc.next_pos)),
                             "InBlockMapKey"),
                   [f EXCEPT !.pc = "loop", !.vfirst = f.first,
                             !.vrest = f.first, !.is_first = TRUE])
       ELSE IF f.pc = "after_key" THEN HandleBlockMapAfterKey(p)
       ELSE IF f.pc = "after_value"
       THEN IF f.pre_pos = sc.done_pos THEN Fail(p1, "Bug")
            ELSE SetTop(p1, [f EXCEPT !.pc = "loop"])
       ELSE IF ~HasLine(sc) THEN HandleBlockMapEnd(p)
       ELSE IF line = <<>> THEN SetScanner(p, NextLine(sc))
       ELSE IF cur_indent < desired_indent_count THEN HandleBlockMapEnd(p)
       ELSE IF IsBlockMapValue(CurState(p))
       THEN Call(SetTop(p, [f1 EXCEPT !.pc = "after_value"]),
                 Frame("handle_node", f.vfirst, f.vrest, NoTag))
       ELSE Call(SetTop(IF IsBlockMapKey(CurState(p)) THEN p
                        ELSE PushState(p, "InBlockMapKey"),
                        [f1 EXCEPT !.pc = "after_key"]),
                 Frame("handle_plain_scalar", desired_indent_count,
                       desired_indent_count, NoTag))

(***************************************************************************)
(* handle_scalar                                                           *)
(***************************************************************************)
HandleScalarStep(p) ==
    LET f == Top(p)
        sc == p.scanner
        line == PeekLine(sc)
        trimmed == TrimStart(line)
        next_char == Head(trimmed)
    IN IF ~HasLine(sc) \/ trimmed = <<>> THEN Return(p)
       ELSE IF line = <<".", ".", ".">> THEN Return(p)
       ELSE IF next_char = "|"
       THEN TailCall(SetScanner(p, NextChar(AdvanceTillNonSpace(sc))),
                     Frame("handle_literal_block_scalar", f.first, f.rest, f.tag))
       ELSE IF next_char = ">" \/ next_char = "'"
       THEN [p EXCEPT !.result = "Panic", !.stack = <<>>]
       ELSE IF next_char = "\""
       THEN TailCall(SetScanner(p, AdvanceTillNonSpace(sc)),
                     Frame("handle_double_quoted_flow_scalar", 0, 0, f.tag))
       ELSE TailCall(p, Frame("handle_plain_scalar", f.first, f.rest, f.tag))

(***************************************************************************)
(* handle_literal_block_scalar                                             *)
(***************************************************************************)
DigitChars == <<"0", "1", "2", "3", "4", "5", "6", "7", "8", "9">>

\* char::to_digit(10), -1 for None
ToDigit(c) ==
    IF \E i \in 1..10 : DigitChars[i] = c
    THEN (CHOOSE i \in 1..10 : DigitChars[i] = c) - 1
    ELSE -1

\* the match arm '1'..'9' (a half-open range)
IsIndentIndicator(c) == ToDigit(c) >= 1 /\ ToDigit(c) < 9

ChompOfPlus == "Strip"

ChompOfMinus == "Keep"

\* the block scalar header after `|`: indentation indicator (-1 for None),
\* chomping method and the scanner after the indicators
BlockHeader(sc) ==
    LET next_char == Head(sc.rem)
        sc1 == NextChar(sc)
        d == IF sc1.rem = <<>> THEN -1 ELSE ToDigit(Head(sc1.rem))
    IN IF IsIndentIndicator(next_char)
       THEN IF StartsWith(sc1.rem, <<"+">>)
            THEN [ind |-> ToDigit(next_char), chomp |-> ChompOfPlus, sc |-> NextChar(sc1)]
            ELSE IF StartsWith(sc1.rem, <<"-">>)
            THEN [ind |-> ToDigit(next_char), chomp |-> ChompOfMinus, sc |-> NextChar(sc1)]
            ELSE [ind |-> ToDigit(next_char), chomp |-> "Clip", sc |-> sc1]
       ELSE IF next_char = "+"
       THEN [ind |-> d, chomp |-> ChompOfPlus,
             sc |-> IF d # -1 THEN NextChar(sc1) ELSE sc1]
       ELSE IF next_char = "-"
       THEN [ind |-> d, chomp |-> ChompOfMinus,
             sc |-> IF d # -1 THEN NextChar(sc1) ELSE sc1]
       ELSE [ind |-> -1, chomp |-> "Clip", sc |-> sc]

\* match chomping_method { .. }
Chomp(chomping_method, ret) ==
    IF chomping_method = "Strip" THEN TrimEndSet(ret, {"\n", "\r"})
    ELSE IF chomping_method = "Clip"
    THEN Append(TrimEndSet(ret, {"\n", "\r"}), "\n")
    ELSE ret

HandleLiteralBlockScalarEnd(p, f) ==
    Return(PushEvent(p, Scalar(f.tag, Chomp(f.chomp, f.ret), f.start_pos,
                               p.scanner.done_pos)))

\* whether the loop over the content lines stops at this line although it
\* is indented enough
LiteralStopsAt(st, line) == IsBlockMapValue(st) /\ Contains(line, <<":", " ">>)

HandleLiteralBlockScalarStep(p) ==
    LET f == Top(p)
        sc == p.scanner
        hd == BlockHeader(sc)
        ex == ExpectCommentOrLineBreak(hd.sc)
        desired_indent == IF hd.ind # -1 THEN hd.ind + f.rest
                          ELSE CountBlockIndentation(ex.sc)
        line == PeekLine(sc)
        leading_space == LeadingSpaces(line)
        sc1 == NextLine(sc)
    IN IF f.pc = "start"
       THEN IF sc.rem = <<>>
            THEN HandleLiteralBlockScalarEnd(p, [f EXCEPT !.start_pos = sc.next_pos])
            ELSE IF ~ex.ok THEN Fail(SetScanner(p, ex.sc), "ExpectingCommentOrLineBreak")
            ELSE SetTop(SetScanner(p, ex.sc),
                        [f EXCEPT !.pc = "loop", !.chomp = hd.chomp,
                                  !.desired = desired_indent,
                                  !.start_pos = Pos(ex.sc.next_pos.line,
                                                    ex.sc.next_pos.column + desired_indent)])
       ELSE IF ~HasLine(sc) THEN HandleLiteralBlockScalarEnd(p, f)
       ELSE IF leading_space < f.desired
       THEN IF TrimStart(line) = <<>>
            THEN SetTop(SetScanner(p, sc1), [f EXCEPT !.ret = Append(@, "\n")])
            ELSE HandleLiteralBlockScalarEnd(p, f)
       ELSE IF LiteralStopsAt(CurState(p), line)
       THEN HandleLiteralBlockScalarEnd(p, f)
       ELSE IF sc1.done_pos = sc.done_pos THEN Fail(SetScanner(p, sc1), "Bug")
       ELSE SetTop(SetScanner(p, sc1),
                   [f EXCEPT !.ret = @ \o Slice(line, f.desired, Len(line)) \o <<"\n">>])

(***************************************************************************)
(* line_folding and flow_folding                                           *)
(***************************************************************************)
RECURSIVE LineFoldingFrom(_, _, _)
LineFoldingFrom(lines, first_line_break_trimmed, ret) ==
    IF lines = <<>> THEN ret
    ELSE LET trimmed == TrimBlank(Head(lines))
             rest == Tail(lines)
             has_next == rest # <<>>
             next_line_is_empty == has_next /\ TrimBlank(Head(rest)) = <<>>
         IN IF trimmed = <<>>
            THEN LineFoldingFrom(rest, first_line_break_trimmed,
                                 IF first_line_break_trimmed
                                 THEN Append(ret, "\n") ELSE ret)
            ELSE IF ~has_next THEN LineFoldingFrom(rest, FALSE, ret \o trimmed)
            ELSE IF next_line_is_empty
            THEN LineFoldingFrom(rest, TRUE, ret \o trimmed)
            ELSE LineFoldingFrom(rest, FALSE, Append(ret \o trimmed, " "))

\* line_folding with first_line_break_trimmed starting as true
LineFoldingBreakTrimmed(string_to_fold) ==
    LineFoldingFrom(string_to_fold, TRUE, <<>>)

LineFolding(string_to_fold) == LineFoldingFrom(string_to_fold, FALSE, <<>>)

\* str::split('\n')
RECURSIVE SplitLf(_)
SplitLf(s) ==
    LET k == FindAny(s, {"\n"})
    IN IF k = -1 THEN <<s>>
       ELSE <<SubSeq(s, 1, k)>> \o SplitLf(SubSeq(s, k + 2, Len(s)))

FlowFolding(string_to_fold) ==
    LET ret == LineFolding(SplitLf(<<"\"">> \o string_to_fold \o <<"\"">>))
    IN Slice(ret, 1, Len(ret) - 1)

(***************************************************************************)
(* validate_plain_scalar: "Ok" or the ErrorKind of the error               *)
(***************************************************************************)
ValidatePlainScalar(p, line) ==
    LET trimmed == TrimStart(line)
        first_char == Head(trimmed)
        rem == p.scanner.rem
    IN IF trimmed # <<>>
          /\ first_char \in {",", "[", "]", "{", "}", "#", "&", "*", "!", "|",
                             ">", "'", "\"", "%", "@", Backtick}
       THEN "InvalidPlainScalarStart"
       ELSE IF trimmed # <<>> /\ first_char \in {":", "?", "-"}
               /\ Len(rem) >= 2 /\ rem[2] = " "
       THEN "InvalidPlainScalarStart"
       ELSE IF Contains(line, <<" ", "#">>) THEN "AmbiguityPlainScalar"
       ELSE IF (IsFlow(CurState(p)) \/ IsBlockMapKey(CurState(p)))
               /\ FindAny(line, {"[", "]", "{", "}"}) # -1
       THEN "AmbiguityPlainScalar"
       ELSE "Ok"

(***************************************************************************)
(* handle_plain_scalar                                                     *)
(***************************************************************************)
\* end_pos of the Scalar event of a plain scalar
PlainEndPos(str_val, start_pos, done_pos) ==
    IF (\A i \in 1..Len(str_val) : str_val[i] # "\n")
       /\ done_pos.line = start_pos.line
    THEN Pos(done_pos.line, start_pos.column + Len(str_val) - 1)
    ELSE done_pos

HandlePlainScalarEnd(p, f) ==
    LET str_val == LineFolding(f.lines)
    IN Return(PushEvent(p, Scalar(f.tag, str_val, f.start_pos,
                                  PlainEndPos(str_val, f.start_pos,
                                              p.scanner.done_pos))))

\* the branch for an implicit key (cur_state is InBlockMapKey)
HandlePlainScalarKey(p, f, line, expected_indent_count, pre_pos) ==
    LET sc == p.scanner
        offset == Find(line, <<":", " ">>)
        colon == Find(line, <<":">>)
        sc1 == AdvanceOffset(sc, offset)
        sc2 == AdvanceOffset(sc, colon)
    IN IF offset # -1
       THEN IF expected_indent_count > offset
            THEN [p EXCEPT !.result = "Panic", !.stack = <<>>]
            ELSE Return(PushEvent(SetScanner(p, sc1),
                     Scalar(f.tag, Slice(line, expected_indent_count, offset),
                            f.start_pos, sc1.done_pos)))
       ELSE IF EndsWith(line, <<":">>)
       THEN IF line = <<":">>
            THEN Return(PushEvent(SetScanner(p, sc2),
                     Scalar(f.tag, <<>>, f.start_pos, sc2.done_pos)))
            ELSE IF expected_indent_count > Len(line) - 1
            THEN [p EXCEPT !.result = "Panic", !.stack = <<>>]
            ELSE Return(PushEvent(SetScanner(p, sc2),
                     Scalar(f.tag, Slice(line, expected_indent_count, Len(line) - 1),
                            f.start_pos, sc2.done_pos)))
       ELSE IF TrimStart(line) = <<>>
       THEN SetTop(SetScanner(p, NextLine(sc)), f)
       ELSE Fail(p, "InvalidImplicitKey")

HandlePlainScalarStep(p) ==
    LET f0 == Top(p)
        sc == p.scanner
        f == IF f0.pc = "start"
             THEN [f0 EXCEPT !.pc = "loop", !.start_pos = sc.next_pos,
                             !.lines = <<>>, !.is_first = TRUE]
             ELSE f0
        line == PeekLine(sc)
        pre_pos == sc.done_pos
        cur_indent_count == LeadingSpaces(line)
        expected_indent_count == IF f.is_first THEN f.first ELSE f.rest
        f1 == IF f.is_first
              THEN [f EXCEPT !.is_first = FALSE,
                             !.start_pos = Pos(f.start_pos.line,
                                               f.start_pos.column + cur_indent_count)]
              ELSE f
        trimmed == TrimStart(line)
        tg == HandleTag(sc)
        has_tag == StartsWith(trimmed, <<"!">>)
        f2 == IF has_tag THEN [f1 EXCEPT !.tag = tg.tag] ELSE f1
        p2 == IF has_tag THEN SetScanner(p, tg.sc) ELSE p
        line2 == PeekLine(p2.scanner)
        valid == ValidatePlainScalar(p2, line2)
        sc3 == NextLine(p2.scanner)
    IN IF ~HasLine(sc) THEN HandlePlainScalarEnd(p, f)
       ELSE IF cur_indent_count < expected_indent_count
       THEN HandlePlainScalarEnd(p, f)
       ELSE IF line = <<".", ".", ".">> THEN HandlePlainScalarEnd(p, f1)
       ELSE IF IsBlockSeq(CurState(p)) /\ StartsWith(trimmed, <<"-", " ">>)
       THEN HandlePlainScalarEnd(p, f1)
       ELSE IF ~IsBlockMapKey(CurState(p)) /\ Contains(line, <<":", " ">>)
       THEN HandlePlainScalarEnd(p, f1)
       ELSE IF ~HasLine(p2.scanner) THEN HandlePlainScalarEnd(p2, f2)
       ELSE IF valid # "Ok" THEN Fail(p2, valid)
       ELSE IF IsBlockMapKey(CurState(p2))
       THEN HandlePlainScalarKey(p2, f2, line2, expected_indent_count, pre_pos)
       ELSE IF sc3.done_pos = pre_pos THEN Fail(SetScanner(p2, sc3), "Bug")
       ELSE SetTop(SetScanner(p2, sc3),
                   [f2 EXCEPT !.lines = Append(@, TrimBlank(line2))])

(***************************************************************************)
(* read_escaped_char                                                       *)
(***************************************************************************)
\* the characters U+0020..U+007E in code point order
AsciiPrintable ==
    <<
      " ", "!", "\"", "#", "$", "%", "&", "'", "(", ")", "*", "+",
      ",", "-", ".", "/", "0", "1", "2", "3", "4", "5", "6", "7",
      "8", "9", ":", ";", "<", "=", ">", "?", "@", "A", "B", "C",
      "D", "E", "F", "G", "H", "I", "J", "K", "L", "M", "N", "O",
      "P", "Q", "R", "S", "T", "U", "V", "W", "X", "Y", "Z", "[",
      "\\", "]", "^", "_", Backtick, "a", "b", "c", "d", "e", "f", "g",
      "h", "i", "j", "k", "l", "m", "n", "o", "p", "q", "r", "s",
      "t", "u", "v", "w", "x", "y", "z", "{", "|", "}", "~"
    >>

\* char::from_u32 for a valid code point: a character is a string of one
\* character where TLA+ can write it, and a name otherwise
CharFromU32(n) ==
    IF n >= 32 /\ n <= 126 THEN AsciiPrintable[n - 31]
    ELSE IF n = 0 THEN "NUL"
    ELSE IF n = 7 THEN "BEL"
    ELSE IF n = 8 THEN "BS"
    ELSE IF n = 9 THEN "\t"
    ELSE IF n = 10 THEN "\n"
    ELSE IF n = 11 THEN "VT"
    ELSE IF n = 12 THEN "\f"
    ELSE IF n = 13 THEN "\r"
    ELSE IF n = 27 THEN "ESC"
    ELSE IF n = 133 THEN "NEL"
    ELSE IF n = 160 THEN "NBSP"
    ELSE IF n = 8232 THEN "LS"
    ELSE IF n = 8233 THEN "PS"
    ELSE "U+" \o ToString(n)

HexDigits ==
    <<"0", "1", "2", "3", "4", "5", "6", "7", "8", "9", "a", "b", "c", "d",
      "e", "f">>

HexDigitsUpper ==
    <<"0", "1", "2", "3", "4", "5", "6", "7", "8", "9", "A", "B", "C", "D",
      "E", "F">>

\* char::to_digit(16), -1 for None
ToHexDigit(c) ==
    IF \E i \in 1..16 : HexDigits[i] = c
    THEN (CHOOSE i \in 1..16 : HexDigits[i] = c) - 1
    ELSE IF \E i \in 1..16 : HexDigitsUpper[i] = c
    THEN (CHOOSE i \in 1..16 : HexDigitsUpper[i] = c) - 1
    ELSE -1

RECURSIVE HexValue(_, _)
HexValue(digits, acc) ==
    IF digits = <<>> THEN acc
    ELSE HexValue(Tail(digits), acc * 16 + ToHexDigit(Head(digits)))

\* u32::from_str_radix(val, 16), -1 for Err: an optional `+` and at least
\* one hexadecimal digit.  val has at most 8 characters, so the value fits
\* u32; a value of more than 6 significant digits is above the last code
\* point U+10FFFF and is given as 1114112, which is no code point either.
U32FromStrRadix16(val) ==
    LET digits == IF val # <<>> /\ Head(val) = "+" THEN Tail(val) ELSE val
        significant == TrimStartSet(digits, {"0"})
    IN IF digits = <<>> \/ \E i \in 1..Len(digits) : ToHexDigit(digits[i]) = -1
       THEN -1
       ELSE IF Len(significant) > 6 THEN 1114112
       ELSE HexValue(significant, 0)

\* whether char::from_u32 returns Some
IsUnicodeScalar(n) == n >= 0 /\ n <= 1114111 /\ ~(n >= 55296 /\ n <= 57343)

\* the character of an escape that takes no digits, "" when there is none
SimpleEscape(c) ==
    IF c = "0" THEN "NUL"
    ELSE IF c = "7" THEN "BEL"
    ELSE IF c = "8" THEN "BS"
    ELSE IF c = "9" \/ c = "t" THEN "\t"
    ELSE IF c = "n" THEN "\n"
    ELSE IF c = "v" THEN "VT"
    ELSE IF c = "f" THEN "\f"
    ELSE IF c = "r" THEN "\r"
    ELSE IF c = "e" THEN "ESC"
    ELSE IF c = "/" THEN "/"
    ELSE IF c = "\\" THEN "\\"
    ELSE IF c = "N" THEN "NEL"
    ELSE IF c = "_" THEN "NBSP"
    ELSE IF c = "L" THEN "LS"
    ELSE IF c = "P" THEN "PS"
    ELSE ""

\* returns the scanner, whether the call returned Ok, and the character
ReadEscapedChar(sc) ==
    LET c == Head(sc.rem)
        sc1 == NextChar(sc)
        expected_count == IF c = "x" THEN 2 ELSE IF c = "u" THEN 4 ELSE 8
        count == IF Len(sc1.rem) < expected_count THEN Len(sc1.rem)
                 ELSE expected_count
        val == SubSeq(sc1.rem, 1, count)
        sc2 == Advance(sc1, count)
        val_u32 == U32FromStrRadix16(val)
    IN IF sc.rem = <<>> THEN [sc |-> sc, ok |-> FALSE, c |-> ""]
       ELSE IF SimpleEscape(c) # "" THEN [sc |-> sc1, ok |-> TRUE, c |-> SimpleEscape(c)]
       ELSE IF c \in {"x", "u", "U"}
       THEN IF count = expected_count /\ val_u32 # -1 /\ IsUnicodeScalar(val_u32)
            THEN [sc |-> sc2, ok |-> TRUE, c |-> CharFromU32(val_u32)]
            ELSE [sc |-> sc2, ok |-> FALSE, c |-> ""]
       ELSE [sc |-> sc1, ok |-> FALSE, c |-> ""]

(***************************************************************************)
(* handle_double_quoted_flow_scalar                                        *)
(***************************************************************************)
\* the loop over the characters: the scanner, the text read, the position
\* of the opening quote and whether an escape was invalid
RECURSIVE ReadDoubleQuoted(_, _, _, _)
\* a run of characters other than the quote and the backslash is pushed to
\* ret character by character; the run is taken in one step here
ReadDoubleQuoted(sc, ret, first_quote_found, start_pos) ==
    IF sc.rem = <<>> THEN [sc |-> sc, ok |-> TRUE, ret |-> ret, start_pos |-> start_pos]
    ELSE LET c == Head(sc.rem)
             sc1 == NextChar(sc)
             esc == ReadEscapedChar(sc1)
             special == FindAny(sc.rem, {"\"", "\\"})
             run == IF special = -1 THEN Len(sc.rem) ELSE special
         IN IF c = "\""
            THEN IF first_quote_found
                 THEN [sc |-> sc1, ok |-> TRUE, ret |-> ret, start_pos |-> start_pos]
                 ELSE ReadDoubleQuoted(sc1, ret, TRUE, sc1.done_pos)
            ELSE IF c = "\\"
            THEN IF esc.ok
                 THEN ReadDoubleQuoted(esc.sc, Append(ret, esc.c),
                                       first_quote_found, start_pos)
                 ELSE [sc |-> esc.sc, ok |-> FALSE, ret |-> ret, start_pos |-> start_pos]
            ELSE ReadDoubleQuoted(Advance(sc, run), ret \o SubSeq(sc.rem, 1, run),
                                  first_quote_found, start_pos)

HandleDoubleQuotedFlowScalarStep(p) ==
    LET f == Top(p)
        r == ReadDoubleQuoted(p.scanner, <<>>, FALSE, p.scanner.next_pos)
    IN IF ~r.ok THEN Fail(SetScanner(p, r.sc), "InvalidEscapeScalar")
       ELSE Return(PushEvent(SetScanner(p, r.sc),
                             Scalar(f.tag, FlowFolding(r.ret), r.start_pos,
                                    r.sc.done_pos)))

(***************************************************************************)
(* YamlValue and YamlValue::compose.  The event iterator is the event list *)
(* and the index of the next event (next_index).  Each operator returns    *)
(* the Result, the value and the index after the events it consumed.       *)
(***************************************************************************)
DefaultPos == Pos(1, 1)

\* Option::None of doc_started_pos
NoPos == Pos(-1, -1)

Null == [type |-> "Null"]

YamlValue(data, start, end) == [data |-> data, start |-> start, end |-> end]

DefaultValue == YamlValue(Null, DefaultPos, DefaultPos)

\* the value wrapped in YamlValueData::Tag when the event carries a tag
Tagged(tag, v) ==
    IF tag = NoTag THEN v
    ELSE YamlValue([type |-> "Tag", name |-> tag, data |-> v.data], v.start, v.end)

Composed(result, value, i) == [result |-> result, value |-> value, i |-> i]

NotComposed == Composed("none", DefaultValue, 0)

\* YamlValueMap::insert on the entries of the IndexMap, a list of key/value
\* pairs: the value of an equal key is replaced in place
YamlValueMapInsertFirst(entries, key, val) == <<<<key, val>>>> \o entries

YamlValueMapInsert(entries, key, val) ==
    IF \E n \in 1..Len(entries) : entries[n][1] = key
    THEN [n \in 1..Len(entries) |->
             IF entries[n][1] = key THEN <<key, val>> ELSE entries[n]]
    ELSE Append(entries, <<key, val>>)

RECURSIVE ComposeValue(_, _, _)
RECURSIVE ComposeSequence(_, _, _, _)
RECURSIVE ComposeMap(_, _, _, _, _, _)

ComposeValue(evs, i, doc_started_pos) ==
    IF i >= Len(evs) THEN Composed("Ok", DefaultValue, i)
    ELSE LET event == evs[i + 1]
             array == ComposeSequence(evs, i + 1, event.start, <<>>)
             map == ComposeMap(evs, i + 1, event.start, <<>>, FALSE, DefaultValue)
         IN IF event.kind = "StreamStart"
            THEN ComposeValue(evs, i + 1, doc_started_pos)
            ELSE IF event.kind = "DocumentStart"
            THEN IF doc_started_pos # NoPos
                 THEN Composed("NoSupportMultipleDocuments", DefaultValue, i + 1)
                 ELSE ComposeValue(evs, i + 1, event.start)
            ELSE IF event.kind \in {"DocumentEnd", "StreamEnd"}
            THEN Composed("Ok", DefaultValue, i + 1)
            ELSE IF event.kind = "SequenceStart"
            THEN IF array.result # "Ok" THEN array
                 ELSE Composed("Ok", Tagged(event.tag, array.value), array.i)
            ELSE IF event.kind = "MapStart"
            THEN IF map.result # "Ok" THEN map
                 ELSE Composed("Ok", Tagged(event.tag, map.value), map.i)
            ELSE IF event.kind \in {"SequenceEnd", "MapEnd"}
            THEN Composed("Bug", DefaultValue, i + 1)
            ELSE Composed("Ok",
                          Tagged(event.tag,
                                 YamlValue([type |-> "String", val |-> event.text],
                                           event.start, event.end)),
                          i + 1)

ComposeSequence(evs, i, start_pos, ret) ==
    IF i >= Len(evs)
    THEN Composed("Ok", YamlValue([type |-> "Array", items |-> ret],
                                  start_pos, DefaultPos), i)
    ELSE IF evs[i + 1].kind = "SequenceEnd"
    THEN Composed("Ok", YamlValue([type |-> "Array", items |-> ret],
                                  start_pos, evs[i + 1].start), i + 1)
    ELSE LET item == ComposeValue(evs, i, NoPos)
         IN IF item.result # "Ok" THEN item
            ELSE ComposeSequence(evs, item.i, start_pos, Append(ret, item.value))

ComposeMap(evs, i, start_pos, ret, has_key, key) ==
    IF i >= Len(evs)
    THEN Composed("Ok", YamlValue([type |-> "Map", entries |-> ret],
                                  start_pos, DefaultPos), i)
    ELSE IF evs[i + 1].kind = "MapEnd"
    THEN Composed("Ok", YamlValue([type |-> "Map", entries |-> ret],
                                  start_pos, evs[i + 1].start), i + 1)
    ELSE LET node == ComposeValue(evs, i, NoPos)
         IN IF node.result # "Ok" THEN node
            ELSE IF has_key
            THEN ComposeMap(evs, node.i, start_pos,
                            YamlValueMapInsert(ret, key, node.value),
                            FALSE, DefaultValue)
            ELSE ComposeMap(evs, node.i, start_pos, ret, TRUE, node.value)

\* YamlValue::compose
Compose(evs) == ComposeValue(evs, 0, NoPos)

(***************************************************************************)
(* Inputs: texts of up to MaxLines lines taken from a vocabulary of lines. *)
(* A last line that is empty stands for a text that ends in a line break.  *)
(***************************************************************************)
RECURSIVE JoinLines(_)
JoinLines(ls) ==
    IF ls = <<>> THEN <<>>
    ELSE IF Len(ls) = 1 THEN ls[1]
    ELSE ls[1] \o <<"\n">> \o JoinLines(Tail(ls))

TextsOf(vocabulary, n) ==
    {JoinLines(ls) : ls \in UNION {[1..k -> vocabulary] : k \in 0..n}}

Vocabulary ==
    {<<>>,
     <<"a", ":", " ", "1">>,
     <<"b", ":">>,
     <<" ", " ", "c", ":", " ", "2">>,
     <<"-", " ", "a">>,
     <<"-">>,
     <<" ", " ", "x">>,
     <<"!", "N", " ", "a">>,
     <<"!", "!", "s", "t", "r", " ", "a">>,
     <<"|">>,
     <<"\"", "q", "\"">>,
     <<"-", "-", "-">>,
     <<".", ".", ".">>}

Inputs == TextsOf(Vocabulary, MaxLines)

(***************************************************************************)
(* The outcome of parse_to_events: the event list is returned only with Ok *)
(***************************************************************************)
Outcome(p) ==
    [result |-> p.result, events |-> IF p.result = "Ok" THEN p.events ELSE <<>>]

Init ==
    /\ input \in Inputs
    /\ parser = ParserNew(input)
    /\ queue = <<>>
    /\ outcomes = <<>>
    /\ events = <<>>
    /\ composed = NotComposed
    /\ operand = Null
    /\ output = <<>>

ParseToEvents ==
    /\ Running(parser, "parse_to_events")
    /\ parser' = ParseToEventsStep(parser)
    /\ UNCHANGED <<input, queue, outcomes, events, composed, operand, output>>

HandleStream ==
    /\ Running(parser, "handle_stream")
    /\ parser' = HandleStreamStep(parser)
    /\ UNCHANGED <<input, queue, outcomes, events, composed, operand, output>>

HandleNode ==
    /\ Running(parser, "handle_node")
    /\ parser' = HandleNodeStep(parser)
    /\ UNCHANGED <<input, queue, outcomes, events, composed, operand, output>>

HandleBlockSeq ==
    /\ Running(parser, "handle_block_seq")
    /\ parser' = HandleBlockSeqStep(parser)
    /\ UNCHANGED <<input, queue, outcomes, events, composed, operand, output>>

HandleBlockMap ==
    /\ Running(parser, "handle_block_map")
    /\ parser' = HandleBlockMapStep(parser)
    /\ UNCHANGED <<input, queue, outcomes, events, composed, operand, output>>

HandleScalar ==
    /\ Running(parser, "handle_scalar")
    /\ parser' = HandleScalarStep(parser)
    /\ UNCHANGED <<input, queue, outcomes, events, composed, operand, output>>

HandleLiteralBlockScalar ==
    /\ Running(parser, "handle_literal_block_scalar")
    /\ parser' = HandleLiteralBlockScalarStep(parser)
    /\ UNCHANGED <<input, queue, outcomes, events, composed, operand, output>>

HandlePlainScalar ==
    /\ Running(parser, "handle_plain_scalar")
    /\ parser' = HandlePlainScalarStep(parser)
    /\ UNCHANGED <<input, queue, outcomes, events, composed, operand, output>>

HandleDoubleQuotedFlowScalar ==
    /\ Running(parser, "handle_double_quoted_flow_scalar")
    /\ parser' = HandleDoubleQuotedFlowScalarStep(parser)
    /\ UNCHANGED <<input, queue, outcomes, events, composed, operand, output>>

Next ==
    \/ ParseToEvents
    \/ HandleStream
    \/ HandleNode
    \/ HandleBlockSeq
    \/ HandleBlockMap
    \/ HandleScalar
    \/ HandleLiteralBlockScalar
    \/ HandlePlainScalar
    \/ HandleDoubleQuotedFlowScalar

Spec == Init /\ [][Next]_vars

(***************************************************************************)
(* Properties of the event list returned by parse_to_events.               *)
(***************************************************************************)
Returned == parser.result = "Ok"

CountKind(evs, kind) == Cardinality({i \in 1..Len(evs) : evs[i].kind = kind})

\* open is the list of the containers opened and not yet closed
RECURSIVE NestedFrom(_, _)
NestedFrom(evs, open) ==
    IF evs = <<>> THEN open = <<>>
    ELSE LET e == Head(evs)
             closes(kind) == /\ open # <<>>
                             /\ open[Len(open)] = kind
                             /\ NestedFrom(Tail(evs), SubSeq(open, 1, Len(open) - 1))
         IN IF e.kind \in {"SequenceStart", "MapStart"}
            THEN NestedFrom(Tail(evs), Append(open, e.kind))
            ELSE IF e.kind = "SequenceEnd" THEN closes("SequenceStart")
            ELSE IF e.kind = "MapEnd" THEN closes("MapStart")
            ELSE IF e.kind = "StreamEnd" THEN open = <<>> /\ NestedFrom(Tail(evs), open)
            ELSE NestedFrom(Tail(evs), open)

ProperlyNested(evs) == NestedFrom(evs, <<>>)

\* the number of containers open just after event i
OpenAt(evs, i) ==
    Cardinality({j \in 1..i : evs[j].kind \in {"SequenceStart", "MapStart"}})
    - Cardinality({j \in 1..i : evs[j].kind \in {"SequenceEnd", "MapEnd"}})

\* C1: every event list that parse_to_events returns is properly nested:
\* each SequenceEnd closes the innermost open SequenceStart, each MapEnd the
\* innermost open MapStart, and nothing is open at StreamEnd.
C1_ProperlyNested == Returned => ProperlyNested(parser.events)

\* a returned event list with a mapping inside a sequence or a sequence
\* inside a mapping
C1_Witness ==
    /\ Returned
    /\ \E i \in 1..Len(parser.events) :
          /\ parser.events[i].kind \in {"SequenceStart", "MapStart"}
          /\ OpenAt(parser.events, i) >= 2
    /\ CountKind(parser.events, "SequenceStart") >= 1
    /\ CountKind(parser.events, "MapStart") >= 1

\* C2: parse_to_events terminates on every input with an event list or an
\* error: no loop spins without consuming input and no recursion is endless.
C2_Terminates == parser.result \notin {"Hang", "StackOverflow"}

\* C3: a returned event list has exactly one StreamStart, as its first
\* element, and exactly one StreamEnd, as its last element.
C3_OneStream ==
    Returned =>
        /\ parser.events # <<>>
        /\ parser.events[1].kind = "StreamStart"
        /\ parser.events[Len(parser.events)].kind = "StreamEnd"
        /\ CountKind(parser.events, "StreamStart") = 1
        /\ CountKind(parser.events, "StreamEnd") = 1

\* counts is the list of the numbers of nodes seen so far in each open
\* container
RECURSIVE MapsEvenFrom(_, _)
MapsEvenFrom(evs, counts) ==
    IF evs = <<>> THEN TRUE
    ELSE LET e == Head(evs)
             n == Len(counts)
             counted == IF n = 0 THEN counts
                        ELSE [counts EXCEPT ![n] = @ + 1]
         IN IF e.kind = "Scalar" THEN MapsEvenFrom(Tail(evs), counted)
            ELSE IF e.kind \in {"SequenceStart", "MapStart"}
            THEN MapsEvenFrom(Tail(evs), Append(counted, 0))
            ELSE IF e.kind = "SequenceEnd"
            THEN n > 0 /\ MapsEvenFrom(Tail(evs), SubSeq(counts, 1, n - 1))
            ELSE IF e.kind = "MapEnd"
            THEN /\ n > 0
                 /\ counts[n] % 2 = 0
                 /\ MapsEvenFrom(Tail(evs), SubSeq(counts, 1, n - 1))
            ELSE MapsEvenFrom(Tail(evs), counts)

\* C4: in a returned event list every MapStart/MapEnd pair directly encloses
\* an even number of nodes.
C4_EvenMaps == Returned => MapsEvenFrom(parser.events, <<>>)

\* the node events of a list, in order
NodeEvents(evs) ==
    SelectSeq(evs, LAMBDA e : e.kind \in {"Scalar", "SequenceStart", "MapStart",
                                          "SequenceEnd", "MapEnd"})

PositionsNonDecreasing(evs) ==
    /\ \A i \in 1..Len(evs) : PosLe(evs[i].start, evs[i].end)
    /\ \A i \in 1..(Len(evs) - 1) : PosLe(evs[i].end, evs[i + 1].start)

\* C5: along a returned event list the positions of the node events never
\* decrease: a Scalar has start <= end and each event starts at or after the
\* end of the event before it.
C5_Positions == Returned => PositionsNonDecreasing(NodeEvents(parser.events))

(***************************************************************************)
(* Literal block scalars: a header line with `|` and its indicators, in a  *)
(* document, a block sequence entry or a block mapping value, followed by  *)
(* up to MaxLines content lines.                                           *)
(***************************************************************************)
LitHeaders ==
    {<<"|">>, <<"|", "+">>, <<"|", "-">>,
     <<"k", ":", " ", "|", "+">>, <<"k", ":", " ", "|", "-">>,
     <<"-", " ", "|">>}

LitContents ==
    {<<>>, <<" ">>, <<" ", " ", "a">>, <<" ", " ", "b", ":", " ", "c">>,
     <<"\"", "z", "\"">>}

LitInputs ==
    {JoinLines(<<h>> \o ls) :
        h \in LitHeaders, ls \in UNION {[1..k -> LitContents] : k \in 0..MaxLines}}

InitLit ==
    /\ input \in LitInputs
    /\ parser = ParserNew(input)
    /\ queue = <<>>
    /\ outcomes = <<>>
    /\ events = <<>>
    /\ composed = NotComposed
    /\ operand = Null
    /\ output = <<>>

SpecLit == InitLit /\ [][Next]_vars

\* the chomping indicator of the header of the block scalar in the input:
\* the characters between `|` and the end of its line
HeaderOf(text) ==
    LET bar == Find(text, <<"|">>)
    IN IF bar = -1 THEN <<>>
       ELSE Before(SubSeq(text, bar + 2, Len(text)), {"\n", "\r"})

\* the text the chomping indicator asks for, from the content lines read
ChompedAs(header, content) ==
    IF Contains(header, <<"-">>) THEN TrimEndSet(content, {"\n", "\r"})
    ELSE IF Contains(header, <<"+">>) THEN content
    ELSE Append(TrimEndSet(content, {"\n", "\r"}), "\n")

\* the step in which handle_literal_block_scalar pushes its Scalar event
LiteralReturns ==
    /\ Running(parser, "handle_literal_block_scalar")
    /\ Top(parser).pc = "loop"
    /\ Len(parser'.events) = Len(parser.events) + 1

\* C8: the Scalar of a literal block scalar is its content lines chomped as
\* the header says: `-` strips every trailing line break, `+` keeps them
\* all, no indicator leaves exactly one.
C8_Chomping ==
    [][LiteralReturns =>
          parser'.events[Len(parser'.events)].text
              = ChompedAs(HeaderOf(input), Top(parser).ret)]_vars

\* the step of the loop of handle_literal_block_scalar on a content line
LiteralAtLine ==
    /\ Running(parser, "handle_literal_block_scalar")
    /\ Top(parser).pc = "loop"
    /\ HasLine(parser.scanner)

LiteralContinuesWith(added) ==
    /\ parser'.result = "running"
    /\ Len(parser'.stack) = Len(parser.stack)
    /\ Top(parser').ret = Top(parser).ret \o added

\* C9: in a literal block scalar every line indented at least as the base
\* indent is appended without the base indent and with a line feed, whatever
\* it contains and whatever the parser state; a less indented line of spaces
\* appends a line feed; only a less indented line that is not empty ends
\* the scalar before the end of input.
C9_LiteralLines ==
    [][LiteralAtLine =>
          LET f == Top(parser)
              line == PeekLine(parser.scanner)
          IN IF LeadingSpaces(line) >= f.desired
             THEN LiteralContinuesWith(Slice(line, f.desired, Len(line)) \o <<"\n">>)
             ELSE IF TrimStart(line) = <<>>
             THEN LiteralContinuesWith(<<"\n">>)
             ELSE Len(parser'.stack) < Len(parser.stack)]_vars

(***************************************************************************)
(* Two runs of parse_to_events, one after the other, on two texts that     *)
(* differ only in the order of the two indicators of a block scalar        *)
(* header: `|dc` first and `|cd` second.                                   *)
(***************************************************************************)
HeaderDigits == {"1", "2", "8", "9"}

HeaderChomps == {"+", "-"}

HeaderContexts == {<<>>, <<"-", " ">>, <<"k", ":", " ">>}

PairContents == {<<>>, <<" ", "a">>, <<" ", " ", " ", "b">>, <<"\"", "z", "\"">>}

HeaderPairs ==
    {<<JoinLines(<<ctx \o <<"|", d, c>>>> \o ls),
       JoinLines(<<ctx \o <<"|", c, d>>>> \o ls)>> :
        ctx \in HeaderContexts, d \in HeaderDigits, c \in HeaderChomps,
        ls \in UNION {[1..k -> PairContents] : k \in 0..MaxLines}}

InitPair ==
    /\ \E pair \in HeaderPairs :
          /\ input = pair[1]
          /\ queue = <<pair[2]>>
    /\ parser = ParserNew(input)
    /\ outcomes = <<>>
    /\ events = <<>>
    /\ composed = NotComposed
    /\ operand = Null
    /\ output = <<>>

\* parse_to_events has returned: its outcome is kept and the next text is
\* parsed by a new parser
NextRun ==
    /\ parser.result # "running"
    /\ queue # <<>>
    /\ outcomes' = Append(outcomes, Outcome(parser))
    /\ input' = Head(queue)
    /\ queue' = Tail(queue)
    /\ parser' = ParserNew(Head(queue))
    /\ UNCHANGED <<events, composed, operand, output>>

NextPair == Next \/ NextRun

SpecPair == InitPair /\ [][NextPair]_vars

BothDone == queue = <<>> /\ Len(outcomes) = 1 /\ parser.result # "running"

\* C10: a block scalar header with an indentation digit 1..9 and a chomping
\* indicator is accepted in either order (neither text is rejected for its
\* header), and both orders give the same outcome: the same events.
C10_EitherOrder ==
    BothDone =>
        /\ outcomes[1].result # "ExpectingCommentOrLineBreak"
        /\ parser.result # "ExpectingCommentOrLineBreak"
        /\ outcomes[1] = Outcome(parser)

(***************************************************************************)
(* YamlValue::compose on event lists built by hand, as the tests of        *)
(* compose.rs build them: the list grows one event at a time, containers   *)
(* are closed in order and a map is closed after an even number of nodes;  *)
(* document events come in any order between the nodes of the top level.   *)
(***************************************************************************)
MaxNodeEvents == 6

IsNodeEvent(e) ==
    e.kind \in {"Scalar", "SequenceStart", "MapStart", "SequenceEnd", "MapEnd"}

\* the open containers of an event list, innermost last, each with the
\* number of nodes it holds so far
RECURSIVE OpenContainers(_, _)
OpenContainers(evs, open) ==
    IF evs = <<>> THEN open
    ELSE LET e == Head(evs)
             n == Len(open)
             counted == IF n = 0 THEN open
                        ELSE [open EXCEPT ![n].count = @ + 1]
         IN IF e.kind = "Scalar" THEN OpenContainers(Tail(evs), counted)
            ELSE IF e.kind \in {"SequenceStart", "MapStart"}
            THEN OpenContainers(Tail(evs),
                                Append(counted, [kind |-> e.kind, count |-> 0]))
            ELSE IF e.kind \in {"SequenceEnd", "MapEnd"}
            THEN OpenContainers(Tail(evs), SubSeq(open, 1, n - 1))
            ELSE OpenContainers(Tail(evs), open)

NodeStarts ==
    {Scalar(NoTag, <<"a">>, Pos(1, 1), Pos(1, 1)),
     Scalar("!t", <<"b">>, Pos(2, 1), Pos(2, 2)),
     SequenceStart(NoTag, Pos(1, 3)),
     MapStart(NoTag, Pos(1, 4))}

\* the events that may follow an event list
NextEvents(evs) ==
    LET open == OpenContainers(evs, <<>>)
        top == open[Len(open)]
        docs == CountKind(evs, "DocumentStart")
        ends == CountKind(evs, "DocumentEnd")
        nodes == IF Len(SelectSeq(evs, IsNodeEvent)) < MaxNodeEvents
                 THEN NodeStarts ELSE {}
    IN IF evs = <<>> THEN {StreamStart}
       ELSE IF evs[Len(evs)].kind = "StreamEnd" THEN {}
       ELSE IF open # <<>>
       THEN nodes
            \cup (IF top.kind = "SequenceStart" THEN {SequenceEnd(Pos(3, 1))} ELSE {})
            \cup (IF top.kind = "MapStart" /\ top.count % 2 = 0
                  THEN {MapEnd(Pos(3, 2))} ELSE {})
       ELSE {StreamEnd}
            \cup (IF docs < 2 THEN {DocumentStart(FALSE, Pos(1, 1))} ELSE {})
            \cup (IF ends < docs THEN {DocumentEnd(FALSE, Pos(3, 3))} ELSE {})
            \cup (IF ends < docs /\ ~IsNodeEvent(evs[Len(evs)]) THEN nodes ELSE {})

InitCompose ==
    /\ input = <<>>
    /\ parser = ParserNew(<<>>)
    /\ queue = <<>>
    /\ outcomes = <<>>
    /\ events = <<>>
    /\ composed = NotComposed
    /\ operand = Null
    /\ output = <<>>

\* the caller appends one event to the list
AddEvent ==
    /\ composed = NotComposed
    /\ \E e \in NextEvents(events) : events' = Append(events, e)
    /\ UNCHANGED <<input, parser, queue, outcomes, composed, operand, output>>

\* the caller hands the finished list to YamlValue::compose
ComposeEvents ==
    /\ composed = NotComposed
    /\ events # <<>>
    /\ events[Len(events)].kind = "StreamEnd"
    /\ composed' = Compose(events)
    /\ UNCHANGED <<input, parser, queue, outcomes, events, operand, output>>

NextCompose == AddEvent \/ ComposeEvents

SpecCompose == InitCompose /\ [][NextCompose]_vars

(***************************************************************************)
(* Properties of YamlValue::compose.                                       *)
(***************************************************************************)
ComposeReturned == composed.result # "none"

\* the number of nodes of the top level
RootCount(evs) ==
    Cardinality({i \in 1..Len(evs) :
                    /\ evs[i].kind \in {"Scalar", "SequenceStart", "MapStart"}
                    /\ OpenAt(evs, i - 1) = 0})

\* one document with one root node, balanced containers and an even number
\* of nodes in each map
WellFormed(evs) ==
    /\ CountKind(evs, "DocumentStart") = 1
    /\ RootCount(evs) = 1
    /\ ProperlyNested(evs)
    /\ MapsEvenFrom(evs, <<>>)

\* the events of a value tree: what the tree says about its own shape
RECURSIVE EventsOfValue(_)
RECURSIVE EventsOfData(_, _, _, _)
RECURSIVE EventsOfItems(_)
RECURSIVE EventsOfEntries(_)
EventsOfValue(v) ==
    IF v.data.type = "Tag"
    THEN EventsOfData(v.data.data, v.data.name, v.start, v.end)
    ELSE EventsOfData(v.data, NoTag, v.start, v.end)

EventsOfData(data, tag, start, end) ==
    IF data.type = "String" THEN <<Scalar(tag, data.val, start, end)>>
    ELSE IF data.type = "Array"
    THEN <<SequenceStart(tag, start)>> \o EventsOfItems(data.items)
         \o <<SequenceEnd(end)>>
    ELSE IF data.type = "Map"
    THEN <<MapStart(tag, start)>> \o EventsOfEntries(data.entries)
         \o <<MapEnd(end)>>
    ELSE <<>>

EventsOfItems(items) ==
    IF items = <<>> THEN <<>>
    ELSE EventsOfValue(Head(items)) \o EventsOfItems(Tail(items))

EventsOfEntries(entries) ==
    IF entries = <<>> THEN <<>>
    ELSE EventsOfValue(Head(entries)[1]) \o EventsOfValue(Head(entries)[2])
         \o EventsOfEntries(Tail(entries))

SameShape ==
    /\ composed.result = "Ok"
    /\ EventsOfValue(composed.value) = NodeEvents(events)

NodeEnd(evs, i) ==
    IF evs[i].kind = "Scalar" THEN i
    ELSE CHOOSE j \in i..Len(evs) :
            /\ OpenAt(evs, j) = OpenAt(evs, i) - 1
            /\ \A k \in i..(j - 1) : OpenAt(evs, k) >= OpenAt(evs, i)

\* the event lists of the nodes from event c up to the end of their container
RECURSIVE ChildrenFrom(_, _)
ChildrenFrom(evs, c) ==
    IF c > Len(evs) \/ evs[c].kind \in {"SequenceEnd", "MapEnd"} THEN <<>>
    ELSE <<SubSeq(evs, c, NodeEnd(evs, c))>> \o ChildrenFrom(evs, NodeEnd(evs, c) + 1)

\* no map has two keys given by the same events
DistinctKeys(evs) ==
    \A m \in 1..Len(evs) :
        evs[m].kind = "MapStart" =>
            LET children == ChildrenFrom(evs, m + 1)
            IN \A a, b \in 1..Len(children) :
                  (a % 2 = 1 /\ b % 2 = 1 /\ a # b) => children[a] # children[b]

C7_MultipleDocuments ==
    (ComposeReturned /\ CountKind(events, "DocumentStart") > 1)
        => composed.result = "NoSupportMultipleDocuments"

(***************************************************************************)
(* Two runs of parse_to_events, the first on a text with `\n` line breaks  *)
(* and the second on the same text with every line break written `\r\n`.   *)
(***************************************************************************)
RECURSIVE WithCrLf(_)
WithCrLf(text) ==
    IF text = <<>> THEN <<>>
    ELSE IF Head(text) = "\n" THEN <<"\r", "\n">> \o WithCrLf(Tail(text))
    ELSE <<Head(text)>> \o WithCrLf(Tail(text))

InitCrLf ==
    /\ input \in Inputs
    /\ queue = <<WithCrLf(input)>>
    /\ parser = ParserNew(input)
    /\ outcomes = <<>>
    /\ events = <<>>
    /\ composed = NotComposed
    /\ operand = Null
    /\ output = <<>>

SpecCrLf == InitCrLf /\ [][NextPair]_vars

\* the kinds, tags and texts of the events of an outcome, positions aside
Unpositioned(outcome) ==
    [result |-> outcome.result,
     events |-> [n \in 1..Len(outcome.events) |->
                    [kind |-> outcome.events[n].kind,
                     explicit |-> outcome.events[n].explicit,
                     tag |-> outcome.events[n].tag,
                     text |-> outcome.events[n].text]]]

IsError(result) == result \notin {"Ok", "Hang", "StackOverflow", "Panic"}

\* C11: a text gives the same outcome with `\n` and with `\r\n` line breaks:
\* the same event kinds, tags and scalar texts, or an error for both.
C11_CrLfSameOutcome ==
    BothDone =>
        \/ Unpositioned(outcomes[1]) = Unpositioned(Outcome(parser))
        \/ IsError(outcomes[1].result) /\ IsError(parser.result)

(***************************************************************************)
(* The serializer (serializer.rs, scalar_ser.rs).  A value handed to the   *)
(* serializer is a tree of strings, sequences and maps, written like the   *)
(* data of a composed value but without positions.                         *)
(***************************************************************************)
Str(s) == [type |-> "String", val |-> s]

Arr(items) == [type |-> "Array", items |-> items]

Map(entries) == [type |-> "Map", entries |-> entries]

RmsdSerializeOption(leading_start_indicator, indent_count, max_width) ==
    [leading_start_indicator |-> leading_start_indicator,
     indent_count |-> indent_count, max_width |-> max_width]

DefaultIndentCount == 2

DefaultMaxWidth == 80

DefaultOption == RmsdSerializeOption(FALSE, DefaultIndentCount, DefaultMaxWidth)

Repeat(c, n) == [k \in 1..n |-> c]

ToScalarString(indent_count, in, max_width) ==
    IF indent_count + Len(in) < max_width
    THEN in
    ELSE <<"\"">> \o in \o <<"\"">>

GetIndentCount(ser) ==
    IF \/ ~EndsWith(ser.output, <<"\n">>)
       \/ EndsWith(ser.output, <<"-", " ">>)
       \/ ser.current_indent_level = 0
    THEN 0
    ELSE (ser.current_indent_level - 1) * ser.option.indent_count

GetIndent(ser) == Repeat(" ", GetIndentCount(ser))

Push(ser, text) == [ser EXCEPT !.output = @ \o text]

Pop(ser) == [ser EXCEPT !.output = SubSeq(@, 1, Len(@) - 1)]

EnsureLineBreak(ser) ==
    IF ~EndsWith(ser.output, <<"\n">>) THEN Push(ser, <<"\n">>) ELSE ser

SerializeStr(ser, v) ==
    Push(ser, GetIndent(ser)
              \o ToScalarString(ser.current_indent_level * ser.option.indent_count,
                                v, ser.option.max_width))

SerializeSeq(ser) ==
    LET popped == IF EndsWith(ser.output, <<":", " ">>) THEN Pop(ser) ELSE ser
        broken == IF /\ ~EndsWith(popped.output, <<"\n">>)
                     /\ popped.output # <<>>
                     /\ ~EndsWith(popped.output, <<"-", " ">>)
                  THEN Push(popped, <<"\n">>)
                  ELSE popped
    IN [broken EXCEPT !.current_indent_level = @ + 1]

SerializeMap(ser) ==
    LET broken == IF EndsWith(ser.output, <<":", " ">>)
                  THEN Push(Pop(ser), <<"\n">>)
                  ELSE ser
    IN [broken EXCEPT !.current_indent_level = @ + 1]

End(ser) ==
    IF ser.current_indent_level > 0
    THEN [ser EXCEPT !.current_indent_level = @ - 1]
    ELSE ser

RECURSIVE Serialize(_, _)
RECURSIVE SerializeElements(_, _)
RECURSIVE SerializeEntries(_, _)

\* <Vec<T> as Serialize>::serialize and the like: the calls a value makes
\* on the serializer
Serialize(ser, v) ==
    IF v.type = "String" THEN SerializeStr(ser, v.val)
    ELSE IF v.type = "Array"
    THEN End(SerializeElements(SerializeSeq(ser), v.items))
    ELSE End(SerializeEntries(SerializeMap(ser), v.entries))

\* SerializeSeq::serialize_element, once per element
SerializeElements(ser, items) ==
    IF items = <<>> THEN ser
    ELSE SerializeElements(
             EnsureLineBreak(
                 Serialize(Push(ser, GetIndent(ser) \o <<"-", " ">>),
                           Head(items))),
             Tail(items))

\* SerializeMap::serialize_key and serialize_value, once per entry
SerializeEntries(ser, entries) ==
    IF entries = <<>> THEN ser
    ELSE SerializeEntries(
             EnsureLineBreak(
                 Serialize(Push(Serialize(ser, Head(entries)[1]), <<":", " ">>),
                           Head(entries)[2])),
             Tail(entries))

ToStringWithOpt(v, option) ==
    IF option.indent_count < 2
    THEN [result |-> "IndentTooSmall", text |-> <<>>]
    ELSE LET ser == Serialize(
                        [option |-> option,
                         output |-> IF option.leading_start_indicator
                                    THEN <<"-", "-", "-", "\n">>
                                    ELSE <<>>,
                         current_indent_level |-> 0],
                        v)
         IN [result |-> "Ok",
             text |-> IF EndsWith(ser.output, <<"\n">>)
                      THEN SubSeq(ser.output, 1, Len(ser.output) - 1)
                      ELSE ser.output]

to_string(v) == ToStringWithOpt(v, DefaultOption)

(***************************************************************************)
(* Round trip: a value is serialized with the default options and the      *)
(* text is parsed and composed again.                                      *)
(***************************************************************************)
LongString == Repeat("a", DefaultMaxWidth)

RoundTripStrings ==
    {<<"a">>, <<"b", " ", "c">>, <<"a", ":", " ", "b">>, <<"-", " ", "a">>,
     <<"#", "a">>, <<"[", "a">>, <<"{", "a">>, <<"!", "a">>, <<"|">>, <<>>,
     LongString}

RoundTripKeys == {<<"k">>, <<"j">>}

RoundTripLeaves == {Str(s) : s \in RoundTripStrings}

RoundTripInner ==
    RoundTripLeaves
    \cup {Arr(<<>>), Arr(<<Str(<<"a">>)>>), Arr(<<Str(<<"a">>), Str(<<"b", " ", "c">>)>>),
          Map(<<>>), Map(<<<<Str(<<"k">>), Str(<<"a">>)>>>>)}

RoundTripValues ==
    RoundTripInner
    \cup {Arr(<<x>>) : x \in RoundTripInner}
    \cup {Arr(<<Str(<<"a">>), x>>) : x \in RoundTripInner}
    \cup {Map(<<<<Str(k), x>>>>) : k \in RoundTripKeys, x \in RoundTripInner}
    \cup {Map(<<<<Str(<<"k">>), x>>, <<Str(<<"j">>), Str(<<"a">>)>>>>) :
             x \in RoundTripInner}

NotEmitted == [result |-> "none", text |-> <<>>]

Idle == [ParserNew(<<>>) EXCEPT !.result = "idle"]

InitRoundTrip ==
    /\ operand \in RoundTripValues
    /\ output = NotEmitted
    /\ input = <<>>
    /\ parser = Idle
    /\ queue = <<>>
    /\ outcomes = <<>>
    /\ events = <<>>
    /\ composed = NotComposed

\* to_string(&value)
EmitText ==
    /\ output = NotEmitted
    /\ output' = to_string(operand)
    /\ UNCHANGED <<input, parser, queue, outcomes, events, composed, operand>>

\* the emitted text is handed to the parser
ParseText ==
    /\ output.result = "Ok"
    /\ parser = Idle
    /\ input' = output.text
    /\ parser' = ParserNew(output.text)
    /\ UNCHANGED <<queue, outcomes, events, composed, operand, output>>

\* the events of a finished parse are handed to YamlValue::compose
ComposeParsed ==
    /\ parser.result = "Ok"
    /\ composed = NotComposed
    /\ events' = parser.events
    /\ composed' = Compose(parser.events)
    /\ UNCHANGED <<input, parser, queue, outcomes, operand, output>>

NextRoundTrip == Next \/ EmitText \/ ParseText \/ ComposeParsed

SpecRoundTrip == InitRoundTrip /\ [][NextRoundTrip]_vars

RECURSIVE DataOf(_)
\* the data of a composed value, positions aside
DataOf(v) ==
    LET data == v.data
    IN IF data.type = "Array"
       THEN Arr([n \in 1..Len(data.items) |-> DataOf(data.items[n])])
       ELSE IF data.type = "Map"
       THEN Map([n \in 1..Len(data.entries) |->
                    <<DataOf(data.entries[n][1]), DataOf(data.entries[n][2])>>])
       ELSE IF data.type = "Tag"
       THEN [type |-> "Tag", name |-> data.name,
             data |-> DataOf(YamlValue(data.data, v.start, v.end))]
       ELSE data

RoundTripDone ==
    /\ parser.result \notin {"idle", "running"}
    /\ parser.result = "Ok" => composed # NotComposed

\* C12: parsing the text the serializer emits for a value with the default
\* options yields the value again
C12_RoundTrip ==
    RoundTripDone => composed.result = "Ok" /\ DataOf(composed.value) = operand

(***************************************************************************)
(* The width option: one value is serialized under several values of       *)
(* max_width, the other options being the defaults.                        *)
(***************************************************************************)
MaxEmissions == 2

NoLimit == 0

Widths == {NoLimit, 4, 8, DefaultMaxWidth}

WidthStrings == {<<"a">>, <<"a", "b", "c">>, <<"a", "b", "c", "d", "e", "f">>}

WidthValues ==
    {Str(s) : s \in WidthStrings}
    \cup {Arr(<<Str(s), Str(t)>>) : s, t \in WidthStrings}
    \cup {Map(<<<<Str(<<"k">>), Str(s)>>>>) : s \in WidthStrings}
    \cup {Map(<<<<Str(<<"k">>), Arr(<<Str(s)>>)>>>>) : s \in WidthStrings}

InitWidth ==
    /\ operand \in WidthValues
    /\ output = <<>>
    /\ input = <<>>
    /\ parser = Idle
    /\ queue = <<>>
    /\ outcomes = <<>>
    /\ events = <<>>
    /\ composed = NotComposed

\* to_string_with_opt(&value, option) with the given max_width; the emitted
\* texts are kept in the order of the calls
EmitWithWidth ==
    /\ Len(output) < MaxEmissions
    /\ \E w \in Widths :
           output' = Append(output,
                            [max_width |-> w,
                             text |-> ToStringWithOpt(
                                          operand,
                                          RmsdSerializeOption(FALSE, DefaultIndentCount, w)).text])
    /\ UNCHANGED <<input, parser, queue, outcomes, events, composed, operand>>

NextWidth == EmitWithWidth

SpecWidth == InitWidth /\ [][NextWidth]_vars

\* no scalar of the emitted text is double-quoted
EmittedPlain(text) == ~Contains(text, <<"\"">>)

\* C18: with max_width = 0 every string that is emitted plain under a larger
\* max_width is emitted plain: the two texts are the same
C18_NoLimitNeverQuotes ==
    \A i, j \in 1..Len(output) :
        /\ output[i].max_width = NoLimit
        /\ output[j].max_width > NoLimit
        /\ EmittedPlain(output[j].text)
        => output[i].text = output[j].text

(***************************************************************************)
(* Flow collections: a text in flow style, the same collection in block    *)
(* style where there is one, and the data the collection stands for.       *)
(***************************************************************************)
FlowCases ==
    {
     [flow |-> <<"[", "a", ",", " ", "b", "]">>,
      block |-> <<<<"-", " ", "a", "\n", "-", " ", "b">>>>,
      data |-> Arr(<<Str(<<"a">>), Str(<<"b">>)>>)],
     [flow |-> <<"[", "a", "]">>,
      block |-> <<<<"-", " ", "a">>>>,
      data |-> Arr(<<Str(<<"a">>)>>)],
     [flow |-> <<"[", " ", "a", ",", "\n", " ", " ", "b", " ", "]">>,
      block |-> <<<<"-", " ", "a", "\n", "-", " ", "b">>>>,
      data |-> Arr(<<Str(<<"a">>), Str(<<"b">>)>>)],
     [flow |-> <<"[", "[", "a", "]", ",", " ", "b", "]">>,
      block |-> <<<<"-", "\n", " ", " ", "-", " ", "a", "\n", "-", " ", "b">>>>,
      data |-> Arr(<<Arr(<<Str(<<"a">>)>>), Str(<<"b">>)>>)],
     [flow |-> <<"{", "a", ":", " ", "\"", "q", "\"", "}">>,
      block |-> <<<<"a", ":", " ", "\"", "q", "\"">>>>,
      data |-> Map(<<<<Str(<<"a">>), Str(<<"q">>)>>>>)],
     [flow |-> <<"{", "a", ":", " ", "1", "}">>,
      block |-> <<<<"a", ":", " ", "1">>>>,
      data |-> Map(<<<<Str(<<"a">>), Str(<<"1">>)>>>>)],
     [flow |-> <<"{", "a", ":", " ", "1", ",", " ", "b", ":", " ", "2", "}">>,
      block |-> <<<<"a", ":", " ", "1", "\n", "b", ":", " ", "2">>>>,
      data |-> Map(<<<<Str(<<"a">>), Str(<<"1">>)>>, <<Str(<<"b">>), Str(<<"2">>)>>>>)],
     [flow |-> <<"{", "a", ":", " ", "{", "b", ":", " ", "2", "}", "}">>,
      block |-> <<<<"a", ":", "\n", " ", " ", "b", ":", " ", "2">>>>,
      data |-> Map(<<<<Str(<<"a">>), Map(<<<<Str(<<"b">>), Str(<<"2">>)>>>>)>>>>)],
     [flow |-> <<"{", "a", ":", " ", "[", "b", ",", " ", "c", "]", "}">>,
      block |-> <<<<"a", ":", "\n", " ", " ", "-", " ", "b", "\n", " ", " ", "-", " ", "c">>>>,
      data |-> Map(<<<<Str(<<"a">>), Arr(<<Str(<<"b">>), Str(<<"c">>)>>)>>>>)],
     [flow |-> <<"[", "{", "a", ":", " ", "1", "}", ",", " ", "b", "]">>,
      block |-> <<<<"-", "\n", " ", " ", "a", ":", " ", "1", "\n", "-", " ", "b">>>>,
      data |-> Arr(<<Map(<<<<Str(<<"a">>), Str(<<"1">>)>>>>), Str(<<"b">>)>>)],
     [flow |-> <<"k", ":", " ", "[", "a", ",", " ", "b", "]">>,
      block |-> <<<<"k", ":", "\n", " ", " ", "-", " ", "a", "\n", " ", " ", "-", " ", "b">>>>,
      data |-> Map(<<<<Str(<<"k">>), Arr(<<Str(<<"a">>), Str(<<"b">>)>>)>>>>)],
     [flow |-> <<"-", " ", "{", "a", ":", " ", "1", "}">>,
      block |-> <<<<"-", "\n", " ", " ", "a", ":", " ", "1">>>>,
      data |-> Arr(<<Map(<<<<Str(<<"a">>), Str(<<"1">>)>>>>)>>)],
     [flow |-> <<"k", ":", " ", "[", "a", "]", "\n", "j", ":", " ", "|", "\n", " ", " ", "x">>,
      block |-> <<<<"k", ":", "\n", " ", " ", "-", " ", "a", "\n", "j", ":", " ", "|", "\n", " ", " ", "x">>>>,
      data |-> Null],
     [flow |-> <<"[", "]">>,
      block |-> <<>>,
      data |-> Arr(<<>>)],
     [flow |-> <<"{", "}">>,
      block |-> <<>>,
      data |-> Map(<<>>)]}

InitFlow ==
    /\ \E c \in FlowCases :
           /\ input = c.flow
           /\ queue = c.block
           /\ operand = c.data
    /\ parser = ParserNew(input)
    /\ outcomes = <<>>
    /\ events = <<>>
    /\ composed = NotComposed
    /\ output = <<>>

SpecFlow == InitFlow /\ [][NextPair]_vars

AllDone == queue = <<>> /\ parser.result # "running"

\* the results of the runs made so far, the flow text first
Runs == Append(outcomes, Outcome(parser))

ComposedData(outcome) ==
    IF outcome.result = "Ok" /\ Compose(outcome.events).result = "Ok"
    THEN DataOf(Compose(outcome.events).value)
    ELSE [type |-> "None"]

\* C13: a flow collection composes to the data of the equivalent block
\* collection, a Sequence of its elements or a Map of its entries in order;
\* [] gives an empty Sequence and {} an empty Map
C13_FlowAsBlock ==
    AllDone =>
        /\ ComposedData(Runs[1]) # [type |-> "None"]
        /\ \A n \in 1..Len(Runs) : ComposedData(Runs[n]) = ComposedData(Runs[1])
        /\ operand # Null => ComposedData(Runs[1]) = operand

\* the same statement about the block texts alone
BlockAsData ==
    AllDone /\ Len(Runs) = 2 =>
        /\ ComposedData(Runs[2]) # [type |-> "None"]
        /\ operand # Null => ComposedData(Runs[2]) = operand

(***************************************************************************)
(* Tags: a text with a tag before a node, whether the tag is an            *)
(* application-local one, and the data the text stands for.                *)
(***************************************************************************)
TagOf(name, data) == [type |-> "Tag", name |-> name, data |-> data]

TagCases ==
    {
     [text |-> <<"!", "A", "b", "e", " ", "1", "2", "8">>,
      local |-> TRUE,
      data |-> TagOf("Abe", Str(<<"1", "2", "8">>))],
     [text |-> <<"!", "A", "b", "e", "\n", "1", "2", "8">>,
      local |-> TRUE,
      data |-> TagOf("Abe", Str(<<"1", "2", "8">>))],
     [text |-> <<"!", "N", " ", "\"", "q", "\"">>,
      local |-> TRUE,
      data |-> TagOf("N", Str(<<"q">>))],
     [text |-> <<"k", ":", " ", "!", "N", " ", "a">>,
      local |-> TRUE,
      data |-> Map(<<<<Str(<<"k">>), TagOf("N", Str(<<"a">>))>>>>)],
     [text |-> <<"-", " ", "!", "N", " ", "a">>,
      local |-> TRUE,
      data |-> Arr(<<TagOf("N", Str(<<"a">>))>>)],
     [text |-> <<"!", "N", "\n", "-", " ", "a">>,
      local |-> TRUE,
      data |-> TagOf("N", Arr(<<Str(<<"a">>)>>))],
     [text |-> <<"!", "N", "\n", "k", ":", " ", "v">>,
      local |-> TRUE,
      data |-> TagOf("N", Map(<<<<Str(<<"k">>), Str(<<"v">>)>>>>))],
     [text |-> <<"!", "!", "s", "t", "r", " ", "a">>,
      local |-> FALSE,
      data |-> TagOf("YamlOrg2002Str", Str(<<"a">>))],
     [text |-> <<"!", "!", "s", "t", "r", " ", "\"", "q", "\"">>,
      local |-> FALSE,
      data |-> TagOf("YamlOrg2002Str", Str(<<"q">>))],
     [text |-> <<"!", "!", "s", "t", "r", " ", "|", "\n", " ", "x", "\n">>,
      local |-> FALSE,
      data |-> TagOf("YamlOrg2002Str", Str(<<"x", "\n">>))],
     [text |-> <<"!", "!", "s", "e", "q", "\n", "-", " ", "a">>,
      local |-> FALSE,
      data |-> TagOf("YamlOrg2002Sequence", Arr(<<Str(<<"a">>)>>))],
     [text |-> <<"!", "!", "m", "a", "p", "\n", "k", ":", " ", "v">>,
      local |-> FALSE,
      data |-> TagOf("YamlOrg2002Map", Map(<<<<Str(<<"k">>), Str(<<"v">>)>>>>))]}

InitTag ==
    /\ \E c \in TagCases :
           /\ input = c.text
           /\ operand = [local |-> c.local, data |-> c.data]
    /\ parser = ParserNew(input)
    /\ queue = <<>>
    /\ outcomes = <<>>
    /\ events = <<>>
    /\ composed = NotComposed
    /\ output = <<>>

SpecTag == InitTag /\ [][Next]_vars

\* no scalar event carries the text of a tag
NoTagTextInScalars(evs) ==
    \A n \in 1..Len(evs) :
        evs[n].kind = "Scalar" => ~Contains(evs[n].text, <<"!">>)

TagComposed ==
    /\ parser.result = "Ok"
    /\ NoTagTextInScalars(parser.events)
    /\ ComposedData(Outcome(parser)) = operand.data

\* C14: an application-local tag before a node is consumed and attached
\* to the node: the text composes to Tag{name, data of the node} and no
\* scalar holds the tag text
C14_LocalTag ==
    parser.result # "running" /\ operand.local => TagComposed

\* the same statement about the core tags
CoreTag ==
    parser.result # "running" /\ ~operand.local => TagComposed

(***************************************************************************)
(* Integer coercions (value.rs).  A u64 is kept as four 16-bit limbs,      *)
(* least significant first, so that the overflow of the 64 bits is the     *)
(* carry out of the fourth limb.                                           *)
(***************************************************************************)
LimbBase == 65536

U64Zero == <<0, 0, 0, 0>>

\* char::to_digit(radix), -1 for None
ToDigitRadix(c, radix) ==
    LET d == ToHexDigit(c)
    IN IF d >= 0 /\ d < radix THEN d ELSE -1

\* char::is_digit(radix), char::is_ascii_digit, char::is_ascii_hexdigit
IsDigitRadix(c, radix) == ToDigitRadix(c, radix) # -1

\* n * radix + digit over the limbs, the carry out of the last limb kept as
\* one more limb
RECURSIVE MulAddLimbs(_, _, _)
MulAddLimbs(limbs, radix, carry) ==
    IF limbs = <<>> THEN <<carry>>
    ELSE LET t == Head(limbs) * radix + carry
         IN <<t % LimbBase>> \o MulAddLimbs(Tail(limbs), radix, t \div LimbBase)

\* checked_mul(radix) and checked_add(digit) of one digit
CheckedMulAdd(acc, radix, digit) ==
    LET r == MulAddLimbs(acc.val, radix, digit)
    IN IF ~acc.ok \/ r[5] # 0 THEN [ok |-> FALSE, val |-> U64Zero]
       ELSE [ok |-> TRUE, val |-> SubSeq(r, 1, 4)]

RECURSIVE AccumulateDigits(_, _, _)
AccumulateDigits(digits, radix, acc) ==
    IF digits = <<>> \/ ~acc.ok THEN acc
    ELSE AccumulateDigits(Tail(digits), radix,
                          CheckedMulAdd(acc, radix, ToDigitRadix(Head(digits), radix)))

\* u64::from_str_radix(src, radix): an optional `+`, at least one digit of
\* the radix, no overflow
U64FromStrRadix(src, radix) ==
    LET digits == IF src # <<>> /\ Head(src) = "+" THEN Tail(src) ELSE src
    IN IF digits = <<>> \/ \E i \in 1..Len(digits) : ~IsDigitRadix(digits[i], radix)
       THEN [ok |-> FALSE, val |-> U64Zero]
       ELSE AccumulateDigits(digits, radix, [ok |-> TRUE, val |-> U64Zero])

AllDigits(s, radix) == \A i \in 1..Len(s) : IsDigitRadix(s[i], radix)

StrIsInteger(s) ==
    IF StartsWith(s, <<"0", "x">>) \/ StartsWith(s, <<"0", "X">>)
    THEN AllDigits(SubSeq(s, 3, Len(s)), 16)
    ELSE IF StartsWith(s, <<"0", "o">>) \/ StartsWith(s, <<"0", "O">>)
    THEN AllDigits(SubSeq(s, 3, Len(s)), 8)
    ELSE IF StartsWith(s, <<"0", "b">>) \/ StartsWith(s, <<"0", "B">>)
    THEN AllDigits(SubSeq(s, 3, Len(s)), 2)
    ELSE AllDigits(s, 10)

IsInteger(data) == IF data.type = "String" THEN StrIsInteger(data.val) ELSE FALSE

NumberResult(r) ==
    [result |-> IF r.ok THEN "Ok" ELSE "InvalidNumber", val |-> r.val]

AsU64(data) ==
    IF data.type = "String"
    THEN LET s == data.val
         IN IF StartsWith(s, <<"0", "x">>) \/ StartsWith(s, <<"0", "X">>)
            THEN NumberResult(U64FromStrRadix(SubSeq(s, 3, Len(s)), 16))
            ELSE IF StartsWith(s, <<"0", "o">>) \/ StartsWith(s, <<"0", "O">>)
            THEN NumberResult(U64FromStrRadix(SubSeq(s, 3, Len(s)), 8))
            ELSE IF StartsWith(s, <<"0", "b">>) \/ StartsWith(s, <<"0", "B">>)
            THEN NumberResult(U64FromStrRadix(SubSeq(s, 3, Len(s)), 2))
            ELSE NumberResult(U64FromStrRadix(s, 10))
    ELSE [result |-> "UnexpectedYamlNodeType", val |-> U64Zero]

(***************************************************************************)
(* The scalars the coercions are applied to.                               *)
(***************************************************************************)
IntegerPrefixes ==
    {<<>>, <<"0", "x">>, <<"0", "X">>, <<"0", "o">>, <<"0", "O">>,
     <<"0", "b">>, <<"0", "B">>}

Chars(digits) == [n \in 1..Len(digits) |-> HexDigits[digits[n] + 1]]

\* u64::MAX and u64::MAX + 1 in bases 10, 16 and 8
IntegerBodies ==
    {<<>>, <<"0">>, <<"1">>, <<"0", "0", "7">>, <<"1", "7">>, <<"1", "0", "1">>,
     <<"8">>, <<"f", "f">>, <<"1", "F">>, <<"g">>, <<"+", "1">>, <<"-", "1">>,
     <<"1", " ">>,
     Chars(<<1, 8, 4, 4, 6, 7, 4, 4, 0, 7, 3, 7, 0, 9, 5, 5, 1, 6, 1, 5>>),
     Chars(<<1, 8, 4, 4, 6, 7, 4, 4, 0, 7, 3, 7, 0, 9, 5, 5, 1, 6, 1, 6>>),
     Chars([n \in 1..16 |-> 15]),
     Chars(<<1>> \o [n \in 1..16 |-> 0]),
     Chars(<<1>> \o [n \in 1..21 |-> 7]),
     Chars(<<2>> \o [n \in 1..21 |-> 0])}

IntegerValues ==
    {Str(p \o b) : p \in IntegerPrefixes, b \in IntegerBodies}
    \cup {Null, Arr(<<Str(<<"1">>)>>)}

Called(fn) == \E n \in 1..Len(output) : output[n].fn = fn

InitInteger ==
    /\ operand \in IntegerValues
    /\ output = <<>>
    /\ input = <<>>
    /\ parser = Idle
    /\ queue = <<>>
    /\ outcomes = <<>>
    /\ events = <<>>
    /\ composed = NotComposed

\* value.is_integer()
IsIntegerCall ==
    /\ ~Called("is_integer")
    /\ output' = Append(output, [fn |-> "is_integer", ret |-> IsInteger(operand)])
    /\ UNCHANGED <<input, parser, queue, outcomes, events, composed, operand>>

\* value.as_u64()
AsU64Call ==
    /\ ~Called("as_u64")
    /\ output' = Append(output, [fn |-> "as_u64", ret |-> AsU64(operand)])
    /\ UNCHANGED <<input, parser, queue, outcomes, events, composed, operand>>

NextInteger == IsIntegerCall \/ AsU64Call

SpecInteger == InitInteger /\ [][NextInteger]_vars

\* the base the prefix of the text stands for, and the digits after it
DetectedBase(s) ==
    IF StartsWith(s, <<"0", "x">>) \/ StartsWith(s, <<"0", "X">>) THEN 16
    ELSE IF StartsWith(s, <<"0", "o">>) \/ StartsWith(s, <<"0", "O">>) THEN 8
    ELSE IF StartsWith(s, <<"0", "b">>) \/ StartsWith(s, <<"0", "B">>) THEN 2
    ELSE 10

DigitsOf(s) == IF DetectedBase(s) = 10 THEN s ELSE SubSeq(s, 3, Len(s))

\* the quotient and the remainder of the limbs by a radix
DivLimbs(limbs, radix) ==
    LET t4 == limbs[4]
        t3 == (t4 % radix) * LimbBase + limbs[3]
        t2 == (t3 % radix) * LimbBase + limbs[2]
        t1 == (t2 % radix) * LimbBase + limbs[1]
    IN [q |-> <<t1 \div radix, t2 \div radix, t3 \div radix, t4 \div radix>>,
        r |-> t1 % radix]

RECURSIVE DigitsOfValue(_, _)
\* the digits of a value in a radix, most significant first, none for zero
DigitsOfValue(limbs, radix) ==
    IF limbs = U64Zero THEN <<>>
    ELSE Append(DigitsOfValue(DivLimbs(limbs, radix).q, radix),
                DivLimbs(limbs, radix).r)

\* the digits of the text, leading zeros aside
SignificantDigits(s) ==
    LET digits == TrimStartSet(DigitsOf(s), {"0"})
    IN [n \in 1..Len(digits) |-> ToHexDigit(digits[n])]

\* C15: when is_integer is true of a scalar, as_u64 succeeds and returns the
\* value of the digits in the detected base
C15_IntegerCoercion ==
    \A i, j \in 1..Len(output) :
        /\ output[i].fn = "is_integer"
        /\ output[i].ret
        /\ output[j].fn = "as_u64"
        => /\ output[j].ret.result = "Ok"
           /\ DigitsOfValue(output[j].ret.val, DetectedBase(operand.val))
                  = SignificantDigits(operand.val)

(***************************************************************************)
(* The error model (error.rs, position.rs): the text form of an error and  *)
(* the error built from a text by serde::de::Error::custom.                *)
(***************************************************************************)
\* the kinds and their names, as the two match tables pair them
ErrorKindNames ==
    <<<<"Bug",
       <<"b", "u", "g">>>>,
     <<"InvalidPosition",
       <<"i", "n", "v", "a", "l", "i", "d", "_", "p", "o", "s", "i", "t", "i", "o", "n">>>>,
     <<"StartWithReservedIndicator",
       <<"s", "t", "a", "r", "t", "_", "w", "i", "t", "h", "_", "r", "e", "s", "e", "r", "v", "e", "d", "_", "i", "n", "d", "i", "c", "a", "t", "o", "r">>>>,
     <<"InvalidEscapeScalar",
       <<"i", "n", "v", "a", "l", "i", "d", "_", "e", "s", "c", "a", "p", "e", "_", "s", "c", "a", "l", "a", "r">>>>,
     <<"UnfinishedQuote",
       <<"u", "n", "f", "i", "n", "i", "s", "h", "e", "d", "_", "q", "u", "o", "t", "e">>>>,
     <<"InvalidErrorType",
       <<"i", "n", "v", "a", "l", "i", "d", "_", "e", "r", "r", "o", "r", "_", "t", "y", "p", "e">>>>,
     <<"UnexpectedYamlNodeType",
       <<"u", "n", "e", "x", "p", "e", "c", "t", "e", "d", "_", "y", "a", "m", "l", "_", "n", "o", "d", "e", "_", "t", "y", "p", "e">>>>,
     <<"InvalidBool",
       <<"i", "n", "v", "a", "l", "i", "d", "_", "b", "o", "o", "l">>>>,
     <<"InvalidNumber",
       <<"i", "n", "v", "a", "l", "i", "d", "_", "n", "u", "m", "b", "e", "r">>>>,
     <<"NumberOverflow",
       <<"n", "u", "m", "b", "e", "r", "_", "o", "v", "e", "r", "f", "l", "o", "w">>>>,
     <<"UnfinishedMapIndicator",
       <<"u", "n", "f", "i", "n", "i", "s", "h", "e", "d", "_", "m", "a", "p", "_", "i", "n", "d", "i", "c", "a", "t", "o", "r">>>>,
     <<"UnfinishedSequenceIndicator",
       <<"u", "n", "f", "i", "n", "i", "s", "h", "e", "d", "_", "s", "e", "q", "u", "e", "n", "c", "e", "_", "i", "n", "d", "i", "c", "a", "t", "o", "r">>>>>>

ErrorKinds == {ErrorKindNames[n][1] : n \in 1..Len(ErrorKindNames)}

DefaultKind == "Bug"

\* <ErrorKind as Display>::fmt
ErrorKindDisplay(kind) ==
    LET n == CHOOSE n \in 1..Len(ErrorKindNames) : ErrorKindNames[n][1] = kind
    IN ErrorKindNames[n][2]

\* ErrorKind::try_from(&str), "Err" for an unknown name
ErrorKindTryFrom(name) ==
    IF \E n \in 1..Len(ErrorKindNames) : ErrorKindNames[n][2] = name
    THEN ErrorKindNames[CHOOSE n \in 1..Len(ErrorKindNames) :
                           ErrorKindNames[n][2] = name][1]
    ELSE "Err"

RECURSIVE FormatUsize(_)
\* the decimal digits of a usize, as `{}` writes them
FormatUsize(n) ==
    IF n < 10 THEN <<DigitChars[n + 1]>>
    ELSE Append(FormatUsize(n \div 10), DigitChars[(n % 10) + 1])

RECURSIVE DecimalValue(_, _)
DecimalValue(digits, acc) ==
    IF digits = <<>> THEN acc
    ELSE DecimalValue(Tail(digits), acc * 10 + ToDigit(Head(digits)))

\* usize::from_str, -1 for Err: an optional `+` and at least one digit
UsizeFromStr(s) ==
    LET digits == IF s # <<>> /\ Head(s) = "+" THEN Tail(s) ELSE s
    IN IF digits = <<>> \/ \E i \in 1..Len(digits) : ToDigit(digits[i]) = -1
       THEN -1
       ELSE DecimalValue(digits, 0)

\* <RmsdPosition as Display>::fmt
PositionDisplay(pos) ==
    IF pos = EOF THEN <<"E", "O", "F">>
    ELSE <<"l", "i", "n", "e", " ">> \o FormatUsize(pos.line)
         \o <<" ", "c", "o", "l", "u", "m", "n", " ">> \o FormatUsize(pos.column)

RECURSIVE Split(_, _)
\* str::split(sep) for a separator of one character
Split(s, sep) ==
    LET at == FindAny(s, {sep})
    IN IF at = -1 THEN <<s>>
       ELSE <<SubSeq(s, 1, at)>> \o Split(SubSeq(s, at + 2, Len(s)), sep)

Take(items, n) == SubSeq(items, 1, IF Len(items) < n THEN Len(items) ELSE n)

\* RmsdPosition::try_from(&str), ok FALSE for Err
PositionTryFrom(value) ==
    LET splited == Take(Split(value, " "), 4)
        line == UsizeFromStr(splited[2])
        column == UsizeFromStr(splited[4])
    IN IF \/ Len(splited) # 4
          \/ splited[1] # <<"l", "i", "n", "e">>
          \/ splited[3] # <<"c", "o", "l", "u", "m", "n">>
       THEN [ok |-> FALSE, pos |-> DefaultPos]
       ELSE IF line = -1 \/ column = -1 THEN [ok |-> FALSE, pos |-> DefaultPos]
       ELSE [ok |-> TRUE, pos |-> Pos(line, column)]

RmsdError(kind, msg, pos) == [kind |-> kind, msg |-> msg, pos |-> pos]

KindSeparator == <<"k", "i", "n", "d", ":", " ">>

ErrorSeparator == <<"e", "r", "r", "o", "r", ":", " ">>

\* <RmsdError as Display>::fmt
ErrorDisplay(e) ==
    PositionDisplay(e.pos) \o <<" ">> \o KindSeparator \o ErrorKindDisplay(e.kind)
    \o <<" ">> \o ErrorSeparator \o e.msg

\* str::split_once: the text before and after the first occurrence
SplitOnce(s, sep) ==
    LET at == Find(s, sep)
    IN [found |-> at # -1,
        before |-> SubSeq(s, 1, at),
        after |-> SubSeq(s, at + Len(sep) + 1, Len(s))]

\* <RmsdError as serde::de::Error>::custom
Custom(msg) ==
    LET outer == SplitOnce(msg, ErrorSeparator)
        inner == SplitOnce(outer.before, KindSeparator)
        pos == PositionTryFrom(inner.before)
        kind == ErrorKindTryFrom(inner.after)
    IN IF outer.found /\ inner.found
       THEN RmsdError(IF kind = "Err" THEN DefaultKind ELSE kind,
                      outer.after,
                      IF pos.ok THEN pos.pos ELSE DefaultPos)
       ELSE RmsdError(DefaultKind, msg, DefaultPos)

(***************************************************************************)
(* An error is written as text and an error is built from the text.        *)
(***************************************************************************)
ErrorPositions == {EOF, DefaultPos, Pos(1, 0), Pos(3, 5), Pos(12, 10)}

ErrorMessages ==
    {<<>>,
     <<"x">>,
     <<"a", " ", "b">>,
     <<"e", "r", "r", "o", "r", ":", " ", "y">>,
     <<"k", "i", "n", "d", ":", " ", "z">>,
     <<"l", "i", "n", "e", " ", "1", " ", "c", "o", "l", "u", "m", "n", " ", "2">>}

InitError ==
    /\ operand \in {RmsdError(k, m, p) :
                       k \in ErrorKinds, m \in ErrorMessages, p \in ErrorPositions}
    /\ input = <<>>
    /\ output = <<>>
    /\ parser = Idle
    /\ queue = <<>>
    /\ outcomes = <<>>
    /\ events = <<>>
    /\ composed = NotComposed

\* the error is written with Display
DisplayError ==
    /\ input = <<>>
    /\ input' = ErrorDisplay(operand)
    /\ UNCHANGED <<parser, queue, outcomes, events, composed, operand, output>>

\* the binding builds an error from the text
CustomError ==
    /\ input # <<>>
    /\ output = <<>>
    /\ output' = <<Custom(input)>>
    /\ UNCHANGED <<input, parser, queue, outcomes, events, composed, operand>>

NextError == DisplayError \/ CustomError

SpecError == InitError /\ [][NextError]_vars

\* C16: the error built from the text form of an error has the same kind,
\* position and message
C16_ErrorRoundTrip == output # <<>> => output[1] = operand

\* the same statement about the message, and about the position of an
\* error that is not at the end of the file
MessageRoundTrip == output # <<>> => output[1].msg = operand.msg

PositionRoundTrip ==
    output # <<>> /\ operand.pos # EOF => output[1].pos = operand.pos

(***************************************************************************)
(* Escapes of a double-quoted scalar: read_escaped_char is called with the *)
(* scanner just after the backslash.                                       *)
(***************************************************************************)
\* the characters that can follow the backslash
EscapeChars ==
    {"0", "a", "b", "t", "n", "v", "f", "r", "e", "/", "\\", "N", "_", "L",
     "P", "x", "u", "U", "7", "8", "9", "1", "c", "z", "X", " ", "\"", "#"}

\* the characters that follow the escape character
EscapeTails ==
    {<<>>, <<"4">>, <<"4", "1">>, <<"4", "g">>, <<"+", "1">>, <<"2", "0", "z">>,
     <<"0", "0", "4">>, <<"0", "0", "4", "1">>, <<"0", "0", "7", "e", "\"">>,
     <<"+", "0", "4", "1">>, <<"D", "8", "0", "0">>,
     <<"0", "0", "0", "0", "0", "0", "4">>,
     <<"0", "0", "0", "0", "0", "0", "4", "1">>,
     <<"0", "0", "1", "1", "0", "0", "0", "0">>,
     <<"0", "0", "0", "0", "0", "0", "7", "E", "a">>}

InitEscape ==
    /\ input \in {<<c>> \o tail : c \in EscapeChars, tail \in EscapeTails}
    /\ operand = Null
    /\ output = <<>>
    /\ parser = Idle
    /\ queue = <<>>
    /\ outcomes = <<>>
    /\ events = <<>>
    /\ composed = NotComposed

\* read_escaped_char on the text after the backslash
ReadEscape ==
    /\ output = <<>>
    /\ output' = <<ReadEscapedChar(ScannerNew(input))>>
    /\ UNCHANGED <<input, parser, queue, outcomes, events, composed, operand>>

NextEscape == ReadEscape

SpecEscape == InitEscape /\ [][NextEscape]_vars

\* the code point of an escape that takes no digits
EscapeCodePoint(c) ==
    IF c = "0" THEN "NUL"
    ELSE IF c = "a" THEN "BEL"
    ELSE IF c = "b" THEN "BS"
    ELSE IF c = "t" THEN "\t"
    ELSE IF c = "n" THEN "\n"
    ELSE IF c = "v" THEN "VT"
    ELSE IF c = "f" THEN "\f"
    ELSE IF c = "r" THEN "\r"
    ELSE IF c = "e" THEN "ESC"
    ELSE IF c = "/" THEN "/"
    ELSE IF c = "\\" THEN "\\"
    ELSE IF c = "N" THEN "NEL"
    ELSE IF c = "_" THEN "NBSP"
    ELSE IF c = "L" THEN "LS"
    ELSE "PS"

EscapeDigitCount(c) == IF c = "x" THEN 2 ELSE IF c = "u" THEN 4 ELSE 8

\* what the escape `text` has to give: the code point of a plain escape, the
\* code point written by the digits of x, u and U, an error for anything
\* else.  A digit run that writes no character (a surrogate, a number above
\* U+10FFFF) is left open.
EscapeAsStated(text, r) ==
    LET c == Head(text)
        count == EscapeDigitCount(c)
        digits == SubSeq(Tail(text), 1, count)
        complete == /\ Len(text) > count
                    /\ \A i \in 1..count : ToHexDigit(digits[i]) # -1
    IN IF c \in {"0", "a", "b", "t", "n", "v", "f", "r", "e", "/", "\\", "N",
                 "_", "L", "P"}
       THEN r.ok /\ r.c = EscapeCodePoint(c)
       ELSE IF c \in {"x", "u", "U"} /\ complete
       THEN IsUnicodeScalar(HexValue(digits, 0))
                => r.ok /\ r.c = CharFromU32(HexValue(digits, 0))
       ELSE ~r.ok

\* C17: a backslash and one of 0 a b t n v f r e / \ N _ L P gives the code
\* point of that escape, x, u and U with 2, 4 and 8 hexadecimal digits give
\* the code point the digits write, and every other escape character or
\* shorter digit run is an InvalidEscapeScalar error
C17_Escapes == output # <<>> => EscapeAsStated(input, output[1])

\* the same statement without the escapes of bell, backspace and tab and
\* without a sign in the digits
EscapeOutsideBellBackspace ==
    output # <<>> /\ Head(input) \notin {"a", "b", "7", "8", "9"}
                  /\ (Len(input) > 1 => input[2] # "+")
        => EscapeAsStated(input, output[1])

(***************************************************************************)
(* The state stack of the parser against the containers that are open.     *)
(***************************************************************************)
\* the kinds of the containers whose Start event is in evs and whose End
\* event is not, outermost first
OpenKinds(evs) ==
    LET open == OpenContainers(evs, <<>>)
    IN [i \in 1..Len(open) |-> open[i].kind]

\* the Start event of the container a state stands for
ContainerOf(state) ==
    IF state = "InBlockSequnce" THEN "SequenceStart"
    ELSE IF state \in {"InBlockMapKey", "InBlockMapValue"} THEN "MapStart"
    ELSE "none"

StatesAsContainers(p) == [i \in 1..Len(p.states) |-> ContainerOf(p.states[i])]

\* C20: while parse_to_events runs and when it returns, the state stack has
\* one entry for each open container, innermost last, and is empty on return
C20_StateStack ==
    parser.result \in {"running", "Ok"}
        => StatesAsContainers(parser) = OpenKinds(parser.events)

\* the same statement for the return of parse_to_events alone, and while no
\* mapping was opened
StackEmptyOnReturn == parser.result = "Ok" => parser.states = <<>>

StackOfSequences ==
    /\ parser.result = "running"
    /\ \A i \in 1..Len(parser.events) : parser.events[i].kind # "MapStart"
    => StatesAsContainers(parser) = OpenKinds(parser.events)

(***************************************************************************)
(* CharsIter (char_iter.rs): rem is iter.as_str(), pos the position of the *)
(* last drained character and next_pos the position of the pending one.    *)
(* A character is a string of length one; None is the empty string.        *)
(***************************************************************************)
None == ""

CharsIterNew(s) == [rem |-> s, pos |-> EOF, next_pos |-> DefaultPos]

\* CharsIter::next: the iterator and the character returned.  A carriage
\* return is drained and the next character is returned in its place.
RECURSIVE CharsNext(_)
CharsNext(it) ==
    IF it.rem = <<>> THEN [it |-> it, c |-> None]
    ELSE LET c == Head(it.rem)
             drained == [it EXCEPT !.rem = Tail(it.rem), !.pos = it.next_pos]
         IN IF c = "\r" THEN CharsNext(drained)
            ELSE IF c = "\n"
            THEN [it |-> [drained EXCEPT !.next_pos = PosNextLine(it.next_pos)],
                  c |-> c]
            ELSE [it |-> [drained EXCEPT !.next_pos = PosNextColumn(it.next_pos)],
                  c |-> c]

\* CharsIter::peek.  On a pending carriage return the loop of peek never
\* ends: YamlToken::parse checks for it before each of its steps.
CharsPeek(it) == IF it.rem = <<>> THEN None ELSE Head(it.rem)

PeekHangs(it) == it.rem # <<>> /\ Head(it.rem) = "\r"

\* CharsIter::dicard_whitespace
RECURSIVE DicardWhitespace(_)
DicardWhitespace(it) ==
    IF CharsPeek(it) \in {" ", "\t"} THEN DicardWhitespace(CharsNext(it).it)
    ELSE it

\* process_indent: the iterator and the indent
RECURSIVE ProcessIndent(_, _)
ProcessIndent(it, count) ==
    LET c == CharsPeek(it)
    IN IF c = " " THEN ProcessIndent(CharsNext(it).it, count + 1)
       ELSE IF c = "-" /\ StartsWith(it.rem, <<"-", " ">>)
       THEN [it |-> it, indent |-> count + 2]
       ELSE [it |-> it, indent |-> count]

(***************************************************************************)
(* scalar_str.rs: the readers of quoted and unquoted strings.  Each takes  *)
(* and returns the iterator; result is "Ok" or the kind of the error.      *)
(***************************************************************************)
YamlCharIndicators ==
    {"-", "?", ":", ",", "[", "]", "{", "}", "#", "&", "*", "!", "|", ">",
     "'", "\"", "%", "@", Backtick}

\* the next count characters, fewer at the end of the text
RECURSIVE TakeChars(_, _, _)
TakeChars(it, count, val) ==
    IF count = 0 \/ it.rem = <<>> THEN [it |-> it, val |-> val]
    ELSE LET n == CharsNext(it)
         IN IF n.c = None THEN [it |-> n.it, val |-> val]
            ELSE TakeChars(n.it, count - 1, Append(val, n.c))

\* read_escaped_char of scalar_str.rs
ReadEscapedCharOfIter(it) ==
    LET n == CharsNext(it)
        expected_count == IF n.c = "x" THEN 2 ELSE IF n.c = "u" THEN 4 ELSE 8
        taken == TakeChars(n.it, expected_count, <<>>)
        val_u32 == U32FromStrRadix16(taken.val)
    IN IF n.c = None THEN [it |-> n.it, ok |-> FALSE, c |-> None]
       ELSE IF SimpleEscape(n.c) # ""
       THEN [it |-> n.it, ok |-> TRUE, c |-> SimpleEscape(n.c)]
       ELSE IF n.c \in {"x", "u", "U"}
       THEN IF /\ Len(taken.val) = expected_count
               /\ val_u32 # -1
               /\ IsUnicodeScalar(val_u32)
            THEN [it |-> taken.it, ok |-> TRUE, c |-> CharFromU32(val_u32)]
            ELSE [it |-> taken.it, ok |-> FALSE, c |-> None]
       ELSE [it |-> n.it, ok |-> FALSE, c |-> None]

RECURSIVE ReadDoubleQuotedStr(_, _)
ReadDoubleQuotedStr(it, ret) ==
    LET n == CharsNext(it)
        esc == ReadEscapedCharOfIter(n.it)
    IN IF n.c = None
       THEN [it |-> n.it, result |-> "UnfinishedQuote", ret |-> ret]
       ELSE IF n.c = "\"" THEN [it |-> n.it, result |-> "Ok", ret |-> ret]
       ELSE IF n.c = "\\"
       THEN IF esc.ok THEN ReadDoubleQuotedStr(esc.it, Append(ret, esc.c))
            ELSE [it |-> esc.it, result |-> "InvalidEscapeScalar", ret |-> ret]
       ELSE ReadDoubleQuotedStr(n.it, Append(ret, n.c))

\* the strings a reader with line folding works on
Folding(it, ret, pending_whitespace, droped_first_newline) ==
    [it |-> it, ret |-> ret, pending_whitespace |-> pending_whitespace,
     droped_first_newline |-> droped_first_newline]

\* process_with_line_folding: the strings after one character and the
\* position returned, DefaultPos for None
ProcessWithLineFolding(f) ==
    LET n == CharsNext(f.it)
        c == n.c
    IN IF c = None THEN [f |-> [f EXCEPT !.it = n.it], pos |-> DefaultPos]
       ELSE IF c \in {" ", "\t"}
       THEN IF n.it.pos.column = 1
            THEN [f |-> [f EXCEPT !.it = DicardWhitespace(n.it)],
                  pos |-> DefaultPos]
            ELSE [f |-> [f EXCEPT !.it = n.it,
                                  !.pending_whitespace = Append(@, c)],
                  pos |-> DefaultPos]
       ELSE IF c = "\n"
       THEN [f |-> IF f.droped_first_newline
                   THEN [f EXCEPT !.it = n.it, !.pending_whitespace = <<>>,
                                  !.ret = Append(@, c)]
                   ELSE IF CharsPeek(n.it) = "\n"
                   THEN [f EXCEPT !.it = n.it, !.pending_whitespace = <<>>,
                                  !.droped_first_newline = TRUE]
                   ELSE [f EXCEPT !.it = n.it, !.pending_whitespace = <<" ">>],
             pos |-> DefaultPos]
       ELSE [f |-> [f EXCEPT !.it = n.it, !.droped_first_newline = FALSE,
                             !.ret = @ \o f.pending_whitespace \o <<c>>,
                             !.pending_whitespace = <<>>],
             pos |-> n.it.pos]

RECURSIVE ReadSingleQuotedLoop(_)
ReadSingleQuotedLoop(f) ==
    LET it1 == CharsNext(f.it).it
    IN IF f.it.rem = <<>>
       THEN [it |-> f.it, result |-> "UnfinishedQuote", ret |-> f.ret]
       ELSE IF CharsPeek(f.it) = "'"
       THEN IF CharsPeek(it1) = "'"
            THEN ReadSingleQuotedLoop([f EXCEPT !.it = CharsNext(it1).it,
                                                !.ret = Append(@, "'")])
            ELSE [it |-> it1, result |-> "Ok",
                  ret |-> f.ret \o f.pending_whitespace]
       ELSE ReadSingleQuotedLoop(ProcessWithLineFolding(f).f)

ReadSingleQuotedStr(it) == ReadSingleQuotedLoop(Folding(it, <<>>, <<>>, FALSE))

RECURSIVE ReadUnquotedLoop(_, _, _, _)
ReadUnquotedLoop(indent, skip_line_folding, f, pos) ==
    LET c == CharsPeek(f.it)
        r == ProcessWithLineFolding(f)
    IN IF c = None THEN [it |-> f.it, ret |-> f.ret, pos |-> pos]
       ELSE IF c \in YamlCharIndicators
       THEN [it |-> f.it, ret |-> f.ret, pos |-> pos]
       ELSE IF /\ c = "\n"
               /\ \/ skip_line_folding
                  \/ ~StartsWith(f.it.rem, <<"\n">> \o Repeat(" ", indent))
       THEN [it |-> CharsNext(f.it).it, ret |-> f.ret, pos |-> pos]
       ELSE ReadUnquotedLoop(indent, skip_line_folding, r.f,
                             IF r.pos # DefaultPos THEN r.pos ELSE pos)

\* read_unquoted_str: the iterator, the string and the position of its
\* last character
ReadUnquotedStr(indent, it, skip_line_folding) ==
    LET n == CharsNext(it)
    IN IF n.c = None THEN [it |-> n.it, ret |-> <<>>, pos |-> EOF]
       ELSE IF n.c = "\n"
       THEN IF skip_line_folding THEN [it |-> n.it, ret |-> <<>>, pos |-> EOF]
            ELSE ReadUnquotedLoop(indent, skip_line_folding,
                                  Folding(n.it, <<>>, <<>>, TRUE), n.it.pos)
       ELSE ReadUnquotedLoop(indent, skip_line_folding,
                             Folding(n.it, <<n.c>>, <<>>, FALSE), n.it.pos)

(***************************************************************************)
(* YamlToken::parse (token.rs).  The tokenizer is the record of the locals *)
(* of parse: iter, ret, indent, and result, which is "running" inside the  *)
(* loop, "Ok" or the kind of the error on return, "Panic" for todo!() and  *)
(* "Hang" for a loop that never ends.                                      *)
(***************************************************************************)
YamlToken(indent, start, end, data) ==
    [indent |-> indent, start |-> start, end |-> end, data |-> data]

TokenData(type) == [type |-> type, text |-> <<>>]

TokenScalar(text) == [type |-> "Scalar", text |-> text]

TokenLocalTag(text) == [type |-> "LocalTag", text |-> text]

Tokenizer(it, ret, indent, result) ==
    [iter |-> it, ret |-> ret, indent |-> indent, result |-> result]

is_after_map_indicator(tokens) ==
    tokens # <<>> /\ tokens[Len(tokens)].data = TokenData("MapValueIndicator")

read_unquoted_str_token(it, indent, skip_line_folding) ==
    LET r == ReadUnquotedStr(indent, it, skip_line_folding)
    IN [it |-> r.it,
        token |-> YamlToken(indent, it.next_pos, r.pos, TokenScalar(r.ret))]

\* process_map_seq_indicator: the tokenizer after the call, with the token
\* pushed when there is one
process_map_seq_indicator(t) ==
    LET it == t.iter
        n == CharsNext(it)
        indicator == IF n.c = "-" THEN TokenData("BlockSequenceIndicator")
                     ELSE IF n.c = "?" THEN TokenData("MapKeyIndicator")
                     ELSE TokenData("MapValueIndicator")
        c == CharsPeek(n.it)
        after == CharsNext(n.it).it
        more == ProcessIndent(after, 0)
        scalar == read_unquoted_str_token(n.it, t.indent,
                                          is_after_map_indicator(t.ret))
    IN IF StartsWith(it.rem, <<"-", "-", "-">>)
       THEN IF t.ret # <<>> THEN [t EXCEPT !.result = "UnexpectedYamlNodeType"]
            ELSE [t EXCEPT !.iter = CharsNext(CharsNext(n.it).it).it]
       ELSE IF c = None
       THEN [t EXCEPT !.iter = n.it,
                      !.ret = Append(@, YamlToken(t.indent, n.it.pos, n.it.pos,
                                                  indicator))]
       ELSE IF c \in {" ", "\t", "\n"}
       THEN IF indicator = TokenData("BlockSequenceIndicator") /\ c = " "
            THEN [t EXCEPT !.iter = more.it,
                           !.indent = t.indent + more.indent + 2,
                           !.ret = Append(@, YamlToken(t.indent, n.it.pos,
                                                       n.it.pos, indicator))]
            ELSE [t EXCEPT !.iter = after,
                           !.ret = Append(@, YamlToken(t.indent, n.it.pos,
                                                       n.it.pos, indicator))]
       ELSE [t EXCEPT !.iter = scalar.it, !.ret = Append(@, scalar.token)]

\* the characters of a tag up to a space or a line break, which is drained
RECURSIVE ReadTag(_, _, _)
ReadTag(it, tag, end) ==
    LET n == CharsNext(it)
    IN IF n.c = None \/ n.c = " " \/ n.c = "\n"
       THEN [it |-> n.it, tag |-> tag, end |-> end]
       ELSE ReadTag(n.it, Append(tag, n.c), n.it.pos)

\* the arm of the match for the character c
MatchChar(t, c) ==
    LET n == CharsNext(t.iter)
        flow == IF c = "[" THEN "FlowSequenceStart"
                ELSE IF c = "," THEN "CollectEntry"
                ELSE IF c = "]" THEN "FlowSequenceEnd"
                ELSE IF c = "{" THEN "FlowMapStart"
                ELSE "FlowMapEnd"
        tag == ReadTag(n.it, <<>>, n.it.pos)
        single == ReadSingleQuotedStr(n.it)
        double == ReadDoubleQuotedStr(n.it, <<>>)
        unquoted == read_unquoted_str_token(t.iter, t.indent,
                                            is_after_map_indicator(t.ret))
    IN IF c = "\n" \/ c = " " THEN [t EXCEPT !.iter = n.it]
       ELSE IF c \in {"-", "?", ":"} THEN process_map_seq_indicator(t)
       ELSE IF c \in {"[", ",", "]", "{", "}"}
       THEN [t EXCEPT !.iter = n.it,
                      !.ret = Append(@, YamlToken(t.indent, n.it.pos, n.it.pos,
                                                  TokenData(flow)))]
       ELSE IF c = "!"
       THEN IF CharsPeek(n.it) = " "
            THEN [t EXCEPT !.iter = CharsNext(n.it).it]
            ELSE [t EXCEPT !.iter = tag.it,
                           !.ret = Append(@, YamlToken(t.indent, n.it.pos,
                                                       tag.end,
                                                       TokenLocalTag(tag.tag)))]
       ELSE IF c = "#" THEN [t EXCEPT !.result = "Ok"]
       ELSE IF c \in {"&", "*", "|", ">", "%"}
       THEN [t EXCEPT !.iter = n.it, !.result = "Panic"]
       ELSE IF c \in {"@", Backtick}
       THEN [t EXCEPT !.result = "StartWithReservedIndicator"]
       ELSE IF c = "'"
       THEN IF single.result # "Ok"
            THEN [t EXCEPT !.iter = single.it, !.result = single.result]
            ELSE [t EXCEPT !.iter = single.it,
                           !.ret = Append(@, YamlToken(t.indent, n.it.pos,
                                                       single.it.pos,
                                                       TokenScalar(single.ret)))]
       ELSE IF c = "\""
       THEN IF double.result # "Ok"
            THEN [t EXCEPT !.iter = double.it, !.result = double.result]
            ELSE [t EXCEPT !.iter = double.it,
                           !.ret = Append(@, YamlToken(t.indent, n.it.pos,
                                                       double.it.pos,
                                                       TokenScalar(double.ret)))]
       ELSE [t EXCEPT !.iter = unquoted.it, !.ret = Append(@, unquoted.token)]

\* one turn of the loop of parse
ParseLoop(t) ==
    LET indented == ProcessIndent(t.iter, 0)
        at_line_start == t.iter.next_pos.column = 1
        t1 == IF at_line_start
              THEN [t EXCEPT !.iter = indented.it, !.indent = indented.indent]
              ELSE t
    IN IF PeekHangs(t.iter) THEN [t EXCEPT !.result = "Hang"]
       ELSE IF CharsPeek(t.iter) = None THEN [t EXCEPT !.result = "Ok"]
       ELSE IF at_line_start /\ indented.indent > 0
       THEN IF PeekHangs(t1.iter) THEN [t1 EXCEPT !.result = "Hang"]
            ELSE IF CharsPeek(t1.iter) = None THEN [t1 EXCEPT !.result = "Ok"]
            ELSE MatchChar(t1, CharsPeek(t1.iter))
       ELSE MatchChar(t1, CharsPeek(t.iter))

\* the tokenizer at the first line of parse
ParseStart(text) ==
    IF text = <<>>
    THEN Tokenizer(CharsIterNew(text),
                   <<YamlToken(0, Pos(1, 0), Pos(1, 0), TokenData("Null"))>>,
                   0, "Ok")
    ELSE Tokenizer(CharsIterNew(text), <<>>, 0, "running")

\* Result<Vec<YamlToken>, RmsdError>: the tokens are returned only with Ok
Tokens(t) ==
    [result |-> t.result, tokens |-> IF t.result = "Ok" THEN t.ret ELSE <<>>]

\* YamlToken::parse as a function of the text
RECURSIVE ParseLoops(_)
ParseLoops(t) == IF t.result # "running" THEN t ELSE ParseLoops(ParseLoop(t))

YamlTokenParse(text) == Tokens(ParseLoops(ParseStart(text)))

(***************************************************************************)
(* Texts with comments.  A line is a piece of YAML and a comment after it; *)
(* a comment follows white space or starts the line.  The text is          *)
(* tokenized one turn of the loop at a time.                               *)
(***************************************************************************)
MaxTokenLines == 2

TokenCode ==
    {<<>>,
     <<"-", " ", "a">>,
     <<"-", " ", "b", " ">>,
     <<"k", ":", " ", "v", " ">>,
     <<"\"", "q", "\"", " ">>,
     <<"'", "s", "'", " ">>,
     <<" ", " ", "-", " ", "c", " ">>,
     <<"[", "a", ",", " ", "b", "]", " ">>,
     <<"{", "k", ":", " ", "v", "}">>,
     <<"!", "T", " ", "x">>,
     <<"?", " ", "k">>,
     <<"x">>}

Comment == <<"#", " ", "c">>

TokenLines ==
    {[code |-> code, comment |-> <<>>] : code \in TokenCode}
        \cup {[code |-> code, comment |-> Comment] :
                 code \in {c \in TokenCode : c = <<>> \/ c[Len(c)] = " "}}

\* the text of the lines, and the text without the comments
TokenTexts ==
    {[text |-> JoinLines([i \in 1..Len(ls) |-> ls[i].code \o ls[i].comment]),
      code |-> JoinLines([i \in 1..Len(ls) |-> ls[i].code])] :
        ls \in UNION {[1..k -> TokenLines] : k \in 1..MaxTokenLines}}

InitToken ==
    /\ \E t \in TokenTexts : input = t.text /\ operand = t.code
    /\ output = <<>>
    /\ parser = Idle
    /\ queue = <<>>
    /\ outcomes = <<>>
    /\ events = <<>>
    /\ composed = NotComposed

\* YamlToken::parse up to its loop
TokenParseStart ==
    /\ output = <<>>
    /\ output' = <<ParseStart(input)>>
    /\ UNCHANGED <<input, parser, queue, outcomes, events, composed, operand>>

\* one turn of the loop
TokenParseLoop ==
    /\ output # <<>>
    /\ output[1].result = "running"
    /\ output' = <<ParseLoop(output[1])>>
    /\ UNCHANGED <<input, parser, queue, outcomes, events, composed, operand>>

NextToken == TokenParseStart \/ TokenParseLoop

SpecToken == InitToken /\ [][NextToken]_vars

TokenParseReturned == output # <<>> /\ output[1].result # "running"

\* C19: the tokens of a text are the tokens of the text without its
\* comments: only the comment is dropped, and every token of the lines
\* after it is produced, in order
C19_CommentsOnlyDropped ==
    TokenParseReturned => Tokens(output[1]) = YamlTokenParse(operand)

\* the same statement for the texts with no line after the first comment
\* that are more than a comment (the empty text alone gives a Null token)
CommentOnLastLine ==
    /\ TokenParseReturned
    /\ operand # <<>>
    /\ Contains(input, <<"#">>)
    /\ ~Contains(SubSeq(input, Find(input, <<"#">>) + 1, Len(input)), <<"\n">>)
    => Tokens(output[1]) = YamlTokenParse(operand)

(***************************************************************************)
(* The value of a key whose line ends with :.                            *)
(***************************************************************************)
\* whether the node at index i of evs is a key of the innermost open mapping
IsKeyAt(evs, i) ==
    LET open == OpenContainers(SubSeq(evs, 1, i - 1), <<>>)
    IN /\ open # <<>>
       /\ open[Len(open)].kind = "MapStart"
       /\ open[Len(open)].count % 2 = 0

\* a mapping that starts on a later line than the key it is the value of
\* has its first key at a greater column than that key
NestedMapsMoreIndented(evs) ==
    \A i \in 1..(Len(evs) - 2) :
        /\ evs[i].kind = "Scalar"
        /\ IsKeyAt(evs, i)
        /\ evs[i + 1].kind = "MapStart"
        /\ evs[i + 2].kind = "Scalar"
        /\ evs[i + 2].start.line > evs[i].start.line
        => evs[i + 2].start.column > evs[i].start.column

\* C21: the line after a key whose line ends with : is the value of the
\* key only if it is indented more than the key; a key2: value line at the
\* indent of the key is the next entry of the same mapping
C21_ValueMoreIndented == Returned => NestedMapsMoreIndented(parser.events)

\* the same statement for the first key of a mapping: a more indented line
\* after it is its value
FirstValueNested ==
    Returned /\ input = <<"b", ":", "\n", " ", " ", "c", ":", " ", "2">>
        => /\ CountKind(parser.events, "MapStart") = 2
           /\ NestedMapsMoreIndented(parser.events)

(***************************************************************************)
(* The text of plain scalars.                                              *)
(***************************************************************************)
WhiteSpace == {" ", "\t", "\n"}

Trimmed(text) ==
    text = <<>> \/ (text[1] \notin WhiteSpace /\ text[Len(text)] \notin WhiteSpace)

\* a text whose scalars are all plain: no literal block, no quoted scalar
PlainOnly(text) == ~Contains(text, <<"|">>) /\ ~Contains(text, <<"\"">>)

\* C22: the text of a Scalar event of a plain scalar, a key of a mapping
\* included, neither begins nor ends with a space, a tab or a line feed
C22_PlainScalarsTrimmed ==
    Returned /\ PlainOnly(input)
        => \A i \in 1..Len(parser.events) :
              parser.events[i].kind = "Scalar" => Trimmed(parser.events[i].text)

\* the same statement for the plain scalars that are not keys, in a text
\* without blank lines
PlainValuesTrimmed ==
    Returned /\ PlainOnly(input)
             /\ ~Contains(input, <<"\n", "\n">>) /\ ~EndsWith(input, <<"\n">>)
        => \A i \in 1..Len(parser.events) :
              parser.events[i].kind = "Scalar" /\ ~IsKeyAt(parser.events, i)
                  => Trimmed(parser.events[i].text)

(***************************************************************************)
(* line_folding as a function of the list of lines.                        *)
(***************************************************************************)
MaxFoldLines == 5

FoldLines ==
    {<<>>, <<" ">>, <<"\t">>, <<"a">>, <<" ", "b", " ">>, <<"c", " ", "d">>,
     <<"\t", "e", "\t">>}

InitFold ==
    /\ operand \in UNION {[1..k -> FoldLines] : k \in 0..MaxFoldLines}
    /\ input = <<>>
    /\ output = <<>>
    /\ parser = Idle
    /\ queue = <<>>
    /\ outcomes = <<>>
    /\ events = <<>>
    /\ composed = NotComposed

\* line_folding of the lines
Fold ==
    /\ output = <<>>
    /\ output' = <<LineFolding(operand)>>
    /\ UNCHANGED <<input, parser, queue, outcomes, events, composed, operand>>

NextFold == Fold

SpecFold == InitFold /\ [][NextFold]_vars

IsEmptyLine(line) == TrimBlank(line) = <<>>

\* the lines up to the last non-empty line
RECURSIVE UpToLastText(_)
UpToLastText(lines) ==
    IF lines = <<>> \/ ~IsEmptyLine(lines[Len(lines)]) THEN lines
    ELSE UpToLastText(SubSeq(lines, 1, Len(lines) - 1))

\* the non-empty lines, trimmed, in order: one space between two that follow
\* each other, one line feed for each of the empty empty lines between two
\* others, nothing for the empty lines before the first (started is false)
RECURSIVE Joined(_, _, _)
Joined(lines, started, empty) ==
    IF lines = <<>> THEN <<>>
    ELSE IF IsEmptyLine(Head(lines))
    THEN Joined(Tail(lines), started, empty + 1)
    ELSE (IF ~started THEN <<>>
          ELSE IF empty = 0 THEN <<" ">>
          ELSE Repeat("\n", empty))
         \o TrimBlank(Head(lines)) \o Joined(Tail(lines), TRUE, 0)

C24_NeverBug == parser.result # "Bug"

\* the same statement for the texts without a mapping
NeverBugWithoutMap ==
    ~Contains(input, <<":">>) => parser.result # "Bug"

(***************************************************************************)
(* The documents of a returned event list.                                 *)
(***************************************************************************)
\* in_document tells whether a DocumentStart is open
RECURSIVE DocumentsFrom(_, _)
DocumentsFrom(evs, in_document) ==
    IF evs = <<>> THEN ~in_document
    ELSE LET e == Head(evs)
         IN IF e.kind = "DocumentStart"
            THEN ~in_document /\ DocumentsFrom(Tail(evs), TRUE)
            ELSE IF e.kind = "DocumentEnd"
            THEN in_document /\ DocumentsFrom(Tail(evs), FALSE)
            ELSE IF IsNodeEvent(e)
            THEN in_document /\ DocumentsFrom(Tail(evs), in_document)
            ELSE IF e.kind = "StreamEnd"
            THEN ~in_document /\ DocumentsFrom(Tail(evs), in_document)
            ELSE DocumentsFrom(Tail(evs), in_document)

\* C25: in a returned event list DocumentStart and DocumentEnd alternate,
\* beginning with a DocumentStart and ending with a DocumentEnd: every node
\* event lies inside a document and the last document is ended before
\* StreamEnd
C25_DocumentsAlternate == Returned => DocumentsFrom(parser.events, FALSE)

\* the same statement for the texts of one node and no document marker
OneImplicitDocument ==
    Returned /\ CountKind(parser.events, "DocumentStart") = 1
             /\ ~Contains(input, <<".", ".", ".">>)
        => DocumentsFrom(parser.events, FALSE)

(***************************************************************************)
(* Double-quoted scalars: texts with escapes, with a line break inside the *)
(* quotes, and without the closing quote.  scalar is the text of the       *)
(* scalar with each escape replaced by its character and each line break   *)
(* folded.                                                                 *)
(***************************************************************************)
QuoteCases ==
    {
     [text |-> <<"\"", "a", "\\", "n", "b", "\"">>,
      scalar |-> <<"a", "\n", "b">>, unfinished |-> FALSE],
     [text |-> <<"-", " ", "\"", "a", "\\", "n", "b", "\"">>,
      scalar |-> <<"a", "\n", "b">>, unfinished |-> FALSE],
     [text |-> <<"\"", "a", "\\", "n", "\\", "n", "b", "\"">>,
      scalar |-> <<"a", "\n", "\n", "b">>, unfinished |-> FALSE],
     [text |-> <<"k", ":", " ", "\"", "a", "\\", "n", "\"">>,
      scalar |-> <<"a", "\n">>, unfinished |-> FALSE],
     [text |-> <<"\"", "a", "\\", "\\", "b", "\"">>,
      scalar |-> <<"a", "\\", "b">>, unfinished |-> FALSE],
     [text |-> <<"\"", "a", "\\", "x", "4", "1", "\"">>,
      scalar |-> <<"a", "A">>, unfinished |-> FALSE],
     [text |-> <<"k", ":", " ", "\"", "a", "\\", "t", "b", "\"">>,
      scalar |-> <<"a", "\t", "b">>, unfinished |-> FALSE],
     [text |-> <<"\"", "a", "\n", " ", " ", "b", "\"">>,
      scalar |-> <<"a", " ", "b">>, unfinished |-> FALSE],
     [text |-> <<"-", " ", "|", "\n", " ", " ", "x">>,
      scalar |-> <<"x", "\n">>, unfinished |-> FALSE],
     [text |-> <<"\"", "a", "b", "c">>,
      scalar |-> <<>>, unfinished |-> TRUE],
     [text |-> <<"-", " ", "\"", "a">>,
      scalar |-> <<>>, unfinished |-> TRUE],
     [text |-> <<"k", ":", " ", "\"", "a", " ", "b">>,
      scalar |-> <<>>, unfinished |-> TRUE]}

InitQuote ==
    /\ operand \in QuoteCases
    /\ input = operand.text
    /\ parser = ParserNew(input)
    /\ output = <<>>
    /\ queue = <<>>
    /\ outcomes = <<>>
    /\ events = <<>>
    /\ composed = NotComposed

\* YamlToken::parse of the text
TokenizeQuoted ==
    /\ output = <<>>
    /\ output' = <<YamlTokenParse(input)>>
    /\ UNCHANGED <<input, parser, queue, outcomes, events, composed, operand>>

NextQuote == Next \/ TokenizeQuoted

SpecQuote == InitQuote /\ [][NextQuote]_vars

ParseDone == parser.result # "running"

HasScalar(evs, text) ==
    \E i \in 1..Len(evs) : evs[i].kind = "Scalar" /\ evs[i].text = text

\* C26: the character of an escape is in the Scalar text unchanged: folding
\* applies to the line breaks of the input only, and the escape of a line
\* feed gives a line feed, never a space or nothing
C26_EscapesUnfolded ==
    ParseDone /\ ~operand.unfinished
        => Returned /\ HasScalar(parser.events, operand.scalar)

\* the same statement for the texts without an escaped line feed
OtherEscapesUnfolded ==
    ParseDone /\ ~operand.unfinished /\ ~Contains(input, <<"\\", "n">>)
        => Returned /\ HasScalar(parser.events, operand.scalar)

\* C27: a double-quoted scalar without its closing quote gives an
\* UnfinishedQuote error, and no Scalar event or token for it
C27_UnfinishedQuote ==
    /\ ParseDone /\ operand.unfinished => parser.result = "UnfinishedQuote"
    /\ output # <<>> /\ operand.unfinished
           => output[1] = [result |-> "UnfinishedQuote", tokens |-> <<>>]

\* the same statement for the tokens alone
UnfinishedQuoteToken ==
    output # <<>> /\ operand.unfinished
        => output[1] = [result |-> "UnfinishedQuote", tokens |-> <<>>]

(***************************************************************************)
(* expect_comment_or_line_break on the rest of a line followed by a line   *)
(* feed and the next lines: operand holds the two parts of the input.      *)
(***************************************************************************)
LineRests ==
    {<<>>, <<" ">>, <<" ", " ">>, <<"#">>, <<"#", " ", "c">>,
     <<" ", "#", " ", "c">>, <<" ", "#", "c", " ">>, <<"x">>,
     <<" ", "x", " ", "#">>}

LineNexts ==
    {<<>>, <<"x">>, <<" ", "x">>, <<" ", " ", "x">>, <<"#", " ", "d">>,
     <<" ">>, <<"\n">>, <<"\n", "x">>, <<"x", "\n", "y">>, <<"-", " ", "a">>,
     <<" ", " ", "a", ":", " ", "1">>}

InitLine ==
    /\ operand \in [rest : LineRests, next : LineNexts]
    /\ input = operand.rest \o <<"\n">> \o operand.next
    /\ output = <<>>
    /\ parser = Idle
    /\ queue = <<>>
    /\ outcomes = <<>>
    /\ events = <<>>
    /\ composed = NotComposed

\* Scanner::new(input).expect_comment_or_line_break()
ExpectLine ==
    /\ output = <<>>
    /\ output' = <<ExpectCommentOrLineBreak(ScannerNew(input))>>
    /\ UNCHANGED <<input, parser, queue, outcomes, events, composed, operand>>

NextLineStep == ExpectLine

SpecLine == InitLine /\ [][NextLineStep]_vars

\* spaces and an optional comment
BlankOrComment(rest) ==
    LET k == Find(rest, <<"#">>)
        blank == IF k = -1 THEN rest ELSE SubSeq(rest, 1, k)
    IN \A i \in 1..Len(blank) : blank[i] = " "

\* C28: expect_comment_or_line_break consumes at most the rest of the line
\* and its line break: after spaces and an optional comment it returns Ok
\* with the cursor at the first character of the next line, whose content
\* is untouched whatever it is
C28_OneLineConsumed ==
    output # <<>> =>
        /\ Len(output[1].sc.rem) >= Len(operand.next)
        /\ BlankOrComment(operand.rest) =>
               /\ output[1].ok
               /\ output[1].sc.rem = operand.next
               /\ operand.next # <<>> => output[1].sc.next_pos = Pos(2, 1)

\* the same statement for the lines without a comment
LineWithoutComment ==
    output # <<>> /\ ~Contains(operand.rest, <<"#">>) =>
        /\ Len(output[1].sc.rem) >= Len(operand.next)
        /\ BlankOrComment(operand.rest) =>
               /\ output[1].ok
               /\ output[1].sc.rem = operand.next
               /\ operand.next # <<>> => output[1].sc.next_pos = Pos(2, 1)

(***************************************************************************)
(* YamlValueMapAccess: input holds the entries of the map in insertion     *)
(* order, operand the access object, queue the calls of the visitor with   *)
(* what each returned.  An Option is a list of no or one element.          *)
(***************************************************************************)
MaxEntries == 3

AccessKeys == {Str(<<"a">>), Str(<<"b">>), Str(<<"c">>)}

AccessValues == {Str(<<"1">>), Str(<<"2">>)}

RECURSIVE InsertAll(_, _)
InsertAll(entries, pairs) ==
    IF pairs = <<>> THEN entries
    ELSE InsertAll(YamlValueMapInsert(entries, Head(pairs)[1], Head(pairs)[2]),
                   Tail(pairs))

Insertions ==
    UNION {[1..n -> AccessKeys \X AccessValues] : n \in 0..MaxEntries}

\* IndexMap::pop: the last entry is removed and returned
YamlValueMapPop(entries) ==
    IF entries = <<>> THEN [entries |-> entries, popped |-> <<>>]
    ELSE [entries |-> SubSeq(entries, 1, Len(entries) - 1),
          popped |-> <<entries[Len(entries)]>>]

YamlValueMapAccessNew(data) ==
    [data |-> data, cached_key |-> <<>>, cached_value |-> <<>>]

\* the access object after the call and what the call returns
NextKeySeedOf(access) ==
    IF access.cached_key # <<>>
    THEN [access |-> [access EXCEPT !.cached_key = <<>>],
          ret |-> access.cached_key]
    ELSE LET p == YamlValueMapPop(access.data)
         IN IF p.popped # <<>>
            THEN [access |-> [access EXCEPT !.data = p.entries,
                                            !.cached_value = <<p.popped[1][2]>>],
                  ret |-> <<p.popped[1][1]>>]
            ELSE [access |-> access, ret |-> <<>>]

NextValueSeedOf(access) ==
    IF access.cached_value # <<>>
    THEN [access |-> [access EXCEPT !.cached_value = <<>>],
          ret |-> access.cached_value]
    ELSE LET p == YamlValueMapPop(access.data)
         IN IF p.popped # <<>>
            THEN [access |-> [access EXCEPT !.data = p.entries,
                                            !.cached_key = <<p.popped[1][1]>>],
                  ret |-> <<p.popped[1][2]>>]
            ELSE [access |-> access, ret |-> <<"UnexpectedYamlNodeType">>]

MaxCalls == 2 * MaxEntries + 1

InitAccess ==
    /\ input \in {InsertAll(<<>>, pairs) : pairs \in Insertions}
    /\ operand = YamlValueMapAccessNew(input)
    /\ queue = <<>>
    /\ output = <<>>
    /\ parser = Idle
    /\ outcomes = <<>>
    /\ events = <<>>
    /\ composed = NotComposed

NextKeySeed ==
    /\ Len(queue) < MaxCalls
    /\ LET r == NextKeySeedOf(operand)
       IN /\ operand' = r.access
          /\ queue' = Append(queue, [call |-> "key", ret |-> r.ret])
    /\ UNCHANGED <<input, parser, outcomes, events, composed, output>>

\* the visitor asks for a value after it was given a key
NextValueSeed ==
    /\ Len(queue) < MaxCalls
    /\ queue # <<>>
    /\ queue[Len(queue)].call = "key"
    /\ queue[Len(queue)].ret # <<>>
    /\ LET r == NextValueSeedOf(operand)
       IN /\ operand' = r.access
          /\ queue' = Append(queue, [call |-> "value", ret |-> r.ret])
    /\ UNCHANGED <<input, parser, outcomes, events, composed, output>>

NextAccess == NextKeySeed \/ NextValueSeed

SpecAccess == InitAccess /\ [][NextAccess]_vars

\* every key that was returned was followed by the call for its value
Alternating(calls) ==
    \A j \in 1..Len(calls) :
        calls[j].call = IF j % 2 = 1 THEN "key" ELSE "value"

\* what the calls return when the entries are handed out as the list order
InOrder(calls, order) ==
    \A j \in 1..Len(calls) :
        LET i == (j + 1) \div 2
        IN calls[j].ret = IF i > Len(order) THEN <<>>
                          ELSE IF j % 2 = 1 THEN <<order[i][1]>>
                          ELSE <<order[i][2]>>

Reversed(s) == [n \in 1..Len(s) |-> s[Len(s) + 1 - n]]

\* C29: the entries go to the visitor in insertion order, each once: the
\* i-th next_key_seed returns the i-th inserted key, the next_value_seed
\* after it that key's value, and next_key_seed returns None after the last
C29_InsertionOrder ==
    Alternating(queue) => InOrder(queue, input)

\* each entry is handed out once, and None after the last: the order is
\* the reverse of the insertion order
EachEntryOnce ==
    Alternating(queue) => InOrder(queue, Reversed(input))

(***************************************************************************)
(* CharsIter: operand is the iterator over the text input, queue the calls *)
(* of peek and next with what each returned.  A call of peek that never    *)
(* returns is recorded as Hang, and no call follows it.                    *)
(***************************************************************************)
MaxIterLen == 3

MaxIterCalls == 4

IterChars == {"a", "\r", "\n"}

IterTexts == UNION {[1..n -> IterChars] : n \in 0..MaxIterLen}

InitIter ==
    /\ input \in IterTexts
    /\ operand = CharsIterNew(input)
    /\ queue = <<>>
    /\ output = <<>>
    /\ parser = Idle
    /\ outcomes = <<>>
    /\ events = <<>>
    /\ composed = NotComposed

IterRunning ==
    /\ Len(queue) < MaxIterCalls
    /\ queue # <<>> => queue[Len(queue)].ret # "Hang"

IterPeek ==
    /\ IterRunning
    /\ queue' = Append(queue, [call |-> "peek",
                               ret |-> IF PeekHangs(operand) THEN "Hang"
                                       ELSE CharsPeek(operand)])
    /\ UNCHANGED <<input, parser, outcomes, events, composed, output, operand>>

IterNext ==
    /\ IterRunning
    /\ operand' = CharsNext(operand).it
    /\ queue' = Append(queue, [call |-> "next", ret |-> CharsNext(operand).c])
    /\ UNCHANGED <<input, parser, outcomes, events, composed, output>>

NextIter == IterPeek \/ IterNext

SpecIter == InitIter /\ [][NextIter]_vars

PeekAsNext(calls) ==
    \A j \in 1..Len(calls) :
        calls[j].call = "peek" =>
            /\ calls[j].ret # "Hang"
            /\ j < Len(calls) => calls[j + 1].ret = calls[j].ret

\* C30: peek always returns, consumes nothing and returns the character the
\* next call of next() returns, None at the end of input, also when the
\* pending character is a carriage return
C30_PeekAsNext == PeekAsNext(queue)

\* the same statement for the texts without a carriage return
PeekWithoutCarriageReturn ==
    (\A i \in 1..Len(input) : input[i] # "\r") => PeekAsNext(queue)

====
